---- MODULE Spec2Model ----
(***************************************************************************)
(* Favorite Colors MCP server: the Color Store (internal/storage),         *)
(* the tool registry and the JSON-RPC request dispatcher (internal/mcp).   *)
(*                                                                         *)
(* Spec     : one dispatcher, requests handled one after the other        *)
(*            (HandleRequest as called by the stdio loop and the tests).  *)
(* ConcSpec : several goroutines calling the Color Store concurrently,    *)
(*            each method split at its lock, read and write steps.        *)
(* TransportSpec : the stdio loop and the /mcp handler around the         *)
(*            dispatcher (internal/transport).                            *)
(* HeapSpec : the store's slice with its backing arrays.                  *)
(***************************************************************************)
EXTENDS Integers, Sequences, FiniteSets, TLC

\* ------------------------------------------------------------------------
\* Bounds of the model
\* ------------------------------------------------------------------------
\* number of distinct color names clients send
NumColors == 2
\* number of goroutines calling the store in ConcSpec
NumThreads == 2
\* total number of store calls issued in one behaviour of ConcSpec
MaxCalls == 2

\* number of distinct colors a single caller of the store uses
MaxListColors == 3

\* number of lines written to standard input in one behaviour
MaxLines == 3

\* number of RegisterTool calls made on a server after NewServer returned
MaxRegistrations == 3

ColorPool == <<"red", "Red", "blue", "green", "Blue">>
Colors == {ColorPool[i] : i \in 1..NumColors}
ListColors == {ColorPool[i] : i \in 1..MaxListColors}
Threads == 1..NumThreads

\* ------------------------------------------------------------------------
\* JSON values as Go decodes them into interface{}
\* ------------------------------------------------------------------------
\* A decoded value is a kind and, for strings and numbers, its text.  A key
\* missing from a map and a JSON null both read as the nil interface.
NilV == [kind |-> "nil", str |-> ""]
NumV(s) == [kind |-> "number", str |-> s]
StrV(s) == [kind |-> "string", str |-> s]
ArrV == [kind |-> "array", str |-> ""]
ObjV == [kind |-> "object", str |-> ""]

\* v.(string): the value and whether the assertion succeeded
AssertString(v) == IF v.kind = "string" THEN [val |-> v.str, ok |-> TRUE]
                                        ELSE [val |-> "", ok |-> FALSE]

\* arguments as found under params["arguments"]: an object is reduced to the
\* one key the handlers read, "color"
NilArgs == [kind |-> "nil", color |-> NilV]
ArgsObj(c) == [kind |-> "object", color |-> c]
\* params of a request: an object is reduced to the keys "name", "arguments"
NilParams == [kind |-> "nil", name |-> NilV, arguments |-> NilArgs]
ScalarParams(k) == [kind |-> k, name |-> NilV, arguments |-> NilArgs]
ParamsObj(n, a) == [kind |-> "object", name |-> n, arguments |-> a]

\* params["arguments"].(map[string]interface{}) ignoring ok: nil map if not an object
AssertArgsMap(a) == IF a.kind = "object" THEN a ELSE NilArgs
\* args["color"]: indexing a nil map yields nil
ArgsColor(args) == IF args.kind = "object" THEN args.color ELSE NilV

\* ------------------------------------------------------------------------
\* Protocol structures
\* ------------------------------------------------------------------------
JSONRPCRequest(id, method, params) ==
    [JSONRPC |-> "2.0", ID |-> id, Method |-> method, Params |-> params]

NoError == [isNil |-> TRUE, Code |-> 0, Message |-> "", Data |-> NilV]
JSONRPCError(code, message) ==
    [isNil |-> FALSE, Code |-> code, Message |-> message, Data |-> NilV]

\* ServerInfo and ServerCapabilities; a capabilities object is the set of the
\* capabilities it declares
ServerInfo(name, version) == [Name |-> name, Version |-> version]
ServerCapabilities == {"tools"}
NoInfo ==
    [protocolVersion |-> "", serverInfo |-> ServerInfo("", ""), capabilities |-> {}]

\* Result is an interface{}: nil, or one of the three result shapes
NoResult == [kind |-> "nil", text |-> "", tools |-> <<>>, info |-> NoInfo]
ContentResult(text) == [kind |-> "content", text |-> text, tools |-> <<>>, info |-> NoInfo]
ToolsResult(ts) == [kind |-> "tools", text |-> "", tools |-> ts, info |-> NoInfo]
InitializeResult ==
    [kind |-> "initialize", text |-> "", tools |-> <<>>,
     info |-> [protocolVersion |-> "2024-11-05",
               serverInfo |-> ServerInfo("favorite-colors-mcp", "1.0.0"),
               capabilities |-> ServerCapabilities]]

JSONRPCResponse(id, result, err) ==
    [JSONRPC |-> "2.0", ID |-> id, Result |-> result, Error |-> err]

\* encoding/json with omitempty: which optional fields the encoded response has
EncodedFields(r) ==
    {"jsonrpc"} \cup (IF r.ID.kind = "nil" THEN {} ELSE {"id"})
                \cup (IF r.Result.kind = "nil" THEN {} ELSE {"result"})
                \cup (IF r.Error.isNil THEN {} ELSE {"error"})


\* json.Marshal of a response: the JSON object, as a function from the names
\* of the fields it has to their values
Marshal(r) ==
    [f \in EncodedFields(r) |->
        CASE f = "jsonrpc" -> r.JSONRPC
          [] f = "id" -> r.ID
          [] f = "result" -> r.Result
          [] OTHER -> IF r.Error.Data.kind = "nil"
                      THEN [code |-> r.Error.Code, message |-> r.Error.Message]
                      ELSE [code |-> r.Error.Code, message |-> r.Error.Message,
                            data |-> r.Error.Data]]

\* ------------------------------------------------------------------------
\* Texts on the wire (a line of standard input, an HTTP request body), by
\* what the scanner and the JSON decoders make of them
\* ------------------------------------------------------------------------
NoRequest == JSONRPCRequest(NilV, "", NilParams)
\* the empty text
BlankText == [kind |-> "blank", req |-> NoRequest]
\* text that is not JSON, or JSON that does not fit the request struct
GarbageText == [kind |-> "garbage", req |-> NoRequest]
\* the JSON object of request r and nothing else
RequestText(r) == [kind |-> "request", req |-> r]
\* the JSON object of request r followed by other characters
TrailingText(r) == [kind |-> "trailing", req |-> r]
\* the JSON object of request r, longer than bufio.MaxScanTokenSize
LongText(r) == [kind |-> "long", req |-> r]

\* bufio.Scanner.Scan with the default buffer: a line that does not fit ends
\* the scan with ErrTooLong
ScanDelivers(text) == text.kind # "long"

\* json.Unmarshal(text, &req): the whole text must be one JSON value
Unmarshal(text) ==
    IF text.kind \in {"request", "long"} THEN [ok |-> TRUE, req |-> text.req]
                                           ELSE [ok |-> FALSE, req |-> NoRequest]

\* json.NewDecoder(body).Decode(&req): reads the first JSON value of the body
\* and leaves what follows it unread; io.EOF on an empty body
Decode(text) ==
    IF text.kind \in {"request", "long", "trailing"} THEN [ok |-> TRUE, req |-> text.req]
                                                       ELSE [ok |-> FALSE, req |-> NoRequest]

\* fmt.Println(string(responseJSON)); json.NewEncoder(w).Encode(response):
\* the JSON object followed by a newline
JSONLine(json) == [kind |-> "json", text |-> "\n", json |-> json]
\* nothing written; json is the empty object where the body is not JSON
NoBody == [kind |-> "none", text |-> "", json |-> <<>>]
\* http.Error(w, text, code) writes the text and a newline
ErrorBody(text) == [kind |-> "text", text |-> text \o "\n", json |-> <<>>]

\* the headers handleMCP and corsHandler set
CORSHeaders ==
    {"Access-Control-Allow-Origin", "Access-Control-Allow-Methods",
     "Access-Control-Allow-Headers", "Access-Control-Max-Age"}
MCPHeaders ==
    {"Content-Type", "Cache-Control", "Access-Control-Allow-Origin",
     "Access-Control-Allow-Methods", "Access-Control-Allow-Headers"}

\* an HTTP request to /mcp and the exchange it makes: the response written,
\* whether the body was handed to the decoder and whether HandleRequest ran
HTTPRequest(method, body) == [Method |-> method, Body |-> body]
Exchange(r, status, headers, body, decoded, dispatched) ==
    [Method |-> r.Method, Body |-> r.Body, Status |-> status, Headers |-> headers,
     Written |-> body, decoded |-> decoded, dispatched |-> dispatched]
NoExchange == Exchange(HTTPRequest("", BlankText), 0, {}, NoBody, FALSE, FALSE)

\* the parse error handleMCP answers with; Data is the decoder's message
ParseErrorResponse ==
    JSONRPCResponse(NilV, NoResult,
                    [isNil |-> FALSE, Code |-> -32700, Message |-> "Parse error",
                     Data |-> StrV("decode error")])

\* ------------------------------------------------------------------------
\* Memory of the store's slice.  A slice is a header, the backing array it
\* points to and its length (its capacity is the length of the array); arrays
\* no slice points to any more are collected.
\* ------------------------------------------------------------------------
\* NewColorStorage: colors: make([]string, 0); no slice returned yet
NewMem ==
    [arrays |-> [a \in {1} |-> <<>>], store |-> [arr |-> 1, len |-> 0],
     got |-> [arr |-> 0, len |-> 0]]

\* the elements of slice s
View(m, s) == IF s.arr = 0 THEN <<>> ELSE SubSeq(m.arrays[s.arr], 1, s.len)

\* memory m with a new array holding elems, and the slice of length n on it
Allocate(m, elems, n) ==
    LET a == CHOOSE i \in 1..3 : /\ i \notin DOMAIN m.arrays
                                 /\ \A j \in 1..(i - 1) : j \in DOMAIN m.arrays
    IN [arrays |-> [i \in DOMAIN m.arrays \cup {a} |-> IF i = a THEN elems ELSE m.arrays[i]],
        slice |-> [arr |-> a, len |-> n]]

\* garbage collection: the arrays cs.colors and the returned slice point to stay
Collect(m) ==
    [m EXCEPT !.arrays = [i \in {m.store.arr, m.got.arr} \ {0} |-> m.arrays[i]]]

\* append(s, x): in place when the capacity allows, otherwise on a new array of
\* twice the capacity (the runtime's growth for small slices)
GoAppend(m, s, x) ==
    IF s.len < Len(m.arrays[s.arr])
    THEN [arrays |-> [m.arrays EXCEPT ![s.arr][s.len + 1] = x],
          slice |-> [arr |-> s.arr, len |-> s.len + 1]]
    ELSE Allocate(m, View(m, s) \o <<x>>
                         \o [i \in 1..((IF s.len = 0 THEN 1 ELSE 2 * s.len) - s.len - 1) |-> ""],
                  s.len + 1)

\* append(s[:i], s[i+1:]...) for the element at position i (from 1): the
\* elements after it move down by one in the same array
GoRemoveAt(m, s, i) ==
    [arrays |-> [m.arrays EXCEPT ![s.arr] =
                    [j \in 1..Len(m.arrays[s.arr]) |->
                        IF i <= j /\ j < s.len THEN m.arrays[s.arr][j + 1]
                                                 ELSE m.arrays[s.arr][j]]],
     slice |-> [arr |-> s.arr, len |-> s.len - 1]]

\* GetColors handing out cs.colors itself
GoGetColorsShares(m) == [arrays |-> m.arrays, slice |-> m.store]
\* GetColors: colors := make([]string, len(cs.colors)); copy(colors, cs.colors)
GoGetColors(m) == Allocate(m, View(m, m.store), m.store.len)

\* ------------------------------------------------------------------------
\* State
\* ------------------------------------------------------------------------
VARIABLES
    colors,      \* ColorStorage.colors
    tools,       \* Server.tools: tool name -> Tool
    mutexW,      \* ColorStorage.mutex: the goroutine holding the write lock, 0 if none
    mutexR,      \* ColorStorage.mutex: the goroutines holding the read lock
    pc,          \* per goroutine: position inside the store method it runs
    cur,         \* per goroutine: index in calls of the call it runs, 0 if idle
    idx,         \* per goroutine: loop index i / length n read so far
    buf,         \* per goroutine: slice value read from cs.colors or built locally
    calls,       \* history of store calls: method, argument, return values, and the
                 \* calls that had released the lock when this one was invoked
    req,         \* the request handled last by the dispatcher
    resp,        \* the response returned for it
    before,      \* ColorStorage.colors as it was when that request arrived
    storeCalls,  \* the Color Store methods invoked while handling it
    served,      \* whether the dispatcher has handled a request yet
    session,     \* what a client that follows a session has seen so far
    alive,       \* the transport the process runs: "off" before one is started,
                 \* "stdio", "http", or "exited" once the process has ended
    stdin,       \* the lines written to standard input so far
    scanned,     \* how many of them the scanner has consumed
    stdout,      \* the lines written to standard output
    exchange,    \* the last HTTP exchange on /mcp: request and response
    mem,         \* memory of the store's slice: the backing arrays, cs.colors and
                 \* the slice the last GetColors returned, as slice headers
    legacy,      \* the single-file server of main.go next to the refactored one:
                 \* favoriteColors, the tools of its MCPServer, its last response
    registered   \* the tools passed to Server.RegisterTool so far, in call order

storeVars == <<colors, tools>>
concVars == <<mutexW, mutexR, pc, cur, idx, buf, calls, mem>>
dispVars == <<req, resp, before, storeCalls, served, session>>
ioVars == <<alive, stdin, scanned, stdout, exchange, legacy, registered>>
vars == <<colors, tools, mutexW, mutexR, pc, cur, idx, buf, calls,
          req, resp, before, storeCalls, served, session,
          alive, stdin, scanned, stdout, exchange, mem, legacy, registered>>

\* ------------------------------------------------------------------------
\* Color Store (internal/storage/colors.go), the sequential meaning of each
\* method: what it does between taking and releasing the lock
\* ------------------------------------------------------------------------
NewColorStorage == <<>>

\* IndexOf with the loop starting at the second element
IndexOfFromSecond(cs, color) ==
    IF \E i \in 2..Len(cs) : cs[i] = color
    THEN CHOOSE i \in 2..Len(cs) : cs[i] = color /\ \A j \in 2..(i - 1) : cs[j] # color
    ELSE 0

\* IndexOf comparing without regard to letter case
LowerCase(c) == IF c = "Red" THEN "red" ELSE IF c = "Blue" THEN "blue" ELSE c
IndexOfIgnoreCase(cs, color) ==
    IF \E i \in 1..Len(cs) : LowerCase(cs[i]) = LowerCase(color)
    THEN CHOOSE i \in 1..Len(cs) :
             /\ LowerCase(cs[i]) = LowerCase(color)
             /\ \A j \in 1..(i - 1) : LowerCase(cs[j]) # LowerCase(color)
    ELSE 0

\* for i, existingColor := range cs { if existingColor == color ... }:
\* the first index holding color, 0 when the loop ends without a match
IndexOf(cs, color) ==
    IF \E i \in 1..Len(cs) : cs[i] = color
    THEN CHOOSE i \in 1..Len(cs) : cs[i] = color /\ \A j \in 1..(i - 1) : cs[j] # color
    ELSE 0

AlreadyMsg(color) == "Color '" \o color \o "' is already in your favorites"
AddedMsg(color) == "Successfully added '" \o color \o "' to your favorite colors!"
RemovedMsg(color) == "Successfully removed '" \o color \o "' from your favorite colors!"
NotFoundMsg(color) == "Color '" \o color \o "' was not found in your favorites"
ClearedMsg(n) == "Successfully cleared " \o ToString(n) \o " favorite colors!"

\* AddColor without the loop looking for the color
AddColorAlwaysAppends(cs, color) ==
    [colors |-> Append(cs, color), message |-> AddedMsg(color), ok |-> TRUE]
\* AddColor putting the new color in front of the list
AddColorPrepends(cs, color) ==
    IF IndexOf(cs, color) # 0
    THEN [colors |-> cs, message |-> AlreadyMsg(color), ok |-> FALSE]
    ELSE [colors |-> <<color>> \o cs, message |-> AddedMsg(color), ok |-> TRUE]
AddColor(cs, color) ==
    IF IndexOf(cs, color) # 0
    THEN [colors |-> cs, message |-> AlreadyMsg(color), ok |-> FALSE]
    ELSE [colors |-> Append(cs, color), message |-> AddedMsg(color), ok |-> TRUE]

\* make([]string, n); copy(dst, src): min(n, len(src)) elements copied, rest ""
CopyColors(n, src) == [i \in 1..n |-> IF i <= Len(src) THEN src[i] ELSE ""]

RECURSIVE RenderLines(_, _)
RenderLines(cs, i) ==
    IF i > Len(cs) THEN ""
    ELSE ToString(i) \o ". " \o cs[i] \o "\n" \o RenderLines(cs, i + 1)

RenderText(cs) ==
    IF Len(cs) = 0 THEN "You have no favorite colors yet."
    ELSE "Your favorite colors (" \o ToString(Len(cs)) \o " total):\n" \o RenderLines(cs, 1)

GetColors(cs) ==
    LET snapshot == CopyColors(Len(cs), cs)
    IN [colors |-> snapshot, text |-> RenderText(snapshot)]

\* cs = cs[1:]: the first entry goes, whichever matched
RemoveAtDropsFirst(cs, i) == Tail(cs)
\* append(cs[:i], cs[i:]...): the slice is put back together unchanged
RemoveAtKeepsEntry(cs, i) == cs
\* cs[i] = cs[len(cs)-1]; cs = cs[:len(cs)-1]: the last entry takes the place
\* of the removed one
RemoveAtSwapLast(cs, i) ==
    IF i \in 1..Len(cs)
    THEN [j \in 1..(Len(cs) - 1) |-> IF j = i THEN cs[Len(cs)] ELSE cs[j]]
    ELSE cs
\* append(cs[:i], cs[i+1:]...) with i counted from 1
RemoveAt(cs, i) ==
    IF i \in 1..Len(cs) THEN SubSeq(cs, 1, i - 1) \o SubSeq(cs, i + 1, Len(cs)) ELSE cs

RemoveColor(cs, color) ==
    LET i == IndexOf(cs, color)
    IN IF i # 0
       THEN [colors |-> RemoveAt(cs, i), message |-> RemovedMsg(color), ok |-> TRUE]
       ELSE [colors |-> cs, message |-> NotFoundMsg(color), ok |-> FALSE]

\* ClearColors taking the count after the slice was replaced
ClearColorsCountsAfter(cs) == [colors |-> <<>>, message |-> ClearedMsg(0), count |-> 0]
ClearColors(cs) == [colors |-> <<>>, message |-> ClearedMsg(Len(cs)), count |-> Len(cs)]

Count(cs) == Len(cs)

\* ------------------------------------------------------------------------
\* Tool registry (internal/mcp/server.go)
\* ------------------------------------------------------------------------
Property(name, type, description) == [name |-> name, type |-> type, description |-> description]
ToolSchema(type, properties, required) ==
    [Type |-> type, Properties |-> properties, Required |-> required]
Tool(name, description, schema) ==
    [Name |-> name, Description |-> description, InputSchema |-> schema]

\* RegisterTool keeping the entry a name already has
RegisterToolKeepsFirst(ts, tool) ==
    [n \in DOMAIN ts \cup {tool.Name} |-> IF n \in DOMAIN ts THEN ts[n] ELSE tool]
RegisterTool(ts, tool) ==
    [n \in DOMAIN ts \cup {tool.Name} |-> IF n = tool.Name THEN tool ELSE ts[n]]

AddColorTool ==
    Tool("add_color", "Add a color to your favorites list",
         ToolSchema("object", {Property("color", "string", "The color to add to favorites")},
                    <<"color">>))
GetColorsTool == Tool("get_colors", "Get all favorite colors", ToolSchema("object", {}, <<>>))
RemoveColorTool ==
    Tool("remove_color", "Remove a color from your favorites list",
         ToolSchema("object", {Property("color", "string", "The color to remove from favorites")},
                    <<"color">>))
ClearColorsTool == Tool("clear_colors", "Clear all favorite colors", ToolSchema("object", {}, <<>>))

\* registerTools leaving out clear_colors
registerToolsWithoutClear(ts) ==
    RegisterTool(RegisterTool(RegisterTool(ts, AddColorTool), GetColorsTool), RemoveColorTool)
registerTools(ts) ==
    RegisterTool(RegisterTool(RegisterTool(RegisterTool(ts, AddColorTool), GetColorsTool),
                              RemoveColorTool), ClearColorsTool)

NoTools == [n \in {} |-> AddColorTool]

\* the RegisterTool calls of registerTools, in order
registerToolsCalls == <<AddColorTool, GetColorsTool, RemoveColorTool, ClearColorsTool>>

\* main.go: var favoriteColors []string; NewMCPServer(); no response yet
NewMCPServer ==
    [favoriteColors |-> <<>>, tools |-> registerTools(NoTools),
     resp |-> [JSONRPC |-> "2.0", ID |-> NilV, Result |-> NoResult, Error |-> NoError]]


\* ------------------------------------------------------------------------
\* Requests clients send
\* ------------------------------------------------------------------------
IDs == {NilV, NumV("1"), StrV("req-a")}
Methods == {"initialize", "tools/list", "tools/call", "not/a/method", ""}
ToolNames == {"add_color", "get_colors", "remove_color", "clear_colors"}
NameValues == {NilV, NumV("7")} \cup {StrV(n) : n \in ToolNames \cup {"unknown_tool"}}
ColorValues == {NilV, NumV("7"), ArrV, StrV("")} \cup {StrV(c) : c \in Colors}
ArgumentsValues ==
    {NilArgs, [kind |-> "string", color |-> NilV], [kind |-> "array", color |-> NilV]}
        \cup {ArgsObj(c) : c \in ColorValues}
ParamsValues ==
    {NilParams, ScalarParams("string"), ScalarParams("array")}
        \cup {ParamsObj(n, a) : n \in NameValues, a \in ArgumentsValues}
\* params sent with the methods that do not read them
OtherParams == {NilParams, ParamsObj(StrV("add_color"), ArgsObj(StrV(ColorPool[1])))}
Requests ==
    {JSONRPCRequest(id, "tools/call", p) : id \in IDs, p \in ParamsValues}
        \cup {JSONRPCRequest(id, m, p) : id \in IDs, m \in Methods \ {"tools/call"},
                                          p \in OtherParams}

\* requests with every JSON shape (absent or null, number, string, array,
\* object) as params, params.name, params.arguments and arguments.color of a
\* tools/call, and some of them with the methods that do not read params
ShapeRequests ==
    LET shapes == {NilV, NumV("7"), StrV(""), ArrV, ObjV}
        names == shapes \cup {StrV(n) : n \in ToolNames \cup {"unknown_tool"}}
        colorValues == shapes \cup {StrV(c) : c \in Colors}
        arguments == {[kind |-> k, color |-> NilV] : k \in {"nil", "number", "string", "array"}}
                         \cup {ArgsObj(c) : c \in colorValues}
        params == {NilParams} \cup {ScalarParams(k) : k \in {"number", "string", "array"}}
                      \cup {ParamsObj(n, a) : n \in names, a \in arguments}
    IN {JSONRPCRequest(NumV("1"), "tools/call", p) : p \in params}
           \cup {JSONRPCRequest(NumV("1"), m, p) :
                     m \in Methods \ {"tools/call"},
                     p \in {NilParams, ScalarParams("number"), ParamsObj(ObjV, ArgsObj(ObjV))}}

\* the orders in which ranging over a map can visit its keys
Orders(S) ==
    {f \in [1..Cardinality(S) -> S] : \A i, j \in 1..Cardinality(S) : f[i] = f[j] => i = j}

\* a session as its client sees it: whether initialize was ever sent, and the
\* adds of a new color sent since the last remove_color or clear_colors call,
\* each with the list it was sent on
NoSession == [initialized |-> FALSE, adds |-> {}]

\* ------------------------------------------------------------------------
\* Initial state: NewServer()
\* ------------------------------------------------------------------------
Init ==
    /\ colors = NewColorStorage
    /\ tools = registerTools(NoTools)
    /\ mutexW = 0
    /\ mutexR = {}
    /\ pc = [t \in Threads |-> "idle"]
    /\ cur = [t \in Threads |-> 0]
    /\ idx = [t \in Threads |-> 0]
    /\ buf = [t \in Threads |-> <<>>]
    /\ calls = <<>>
    /\ req = JSONRPCRequest(NilV, "", NilParams)
    /\ resp = JSONRPCResponse(NilV, NoResult, NoError)
    /\ before = <<>>
    /\ storeCalls = <<>>
    /\ served = FALSE
    /\ session = NoSession
    /\ alive = "off"
    /\ stdin = <<>>
    /\ scanned = 0
    /\ stdout = <<>>
    /\ exchange = NoExchange
    /\ mem = NewMem
    /\ legacy = NewMCPServer
    /\ registered = registerToolsCalls

\* ------------------------------------------------------------------------
\* Request dispatcher (internal/mcp/server.go), one request at a time
\* ------------------------------------------------------------------------
\* return response, the store left as newColors after the store methods in made
Return(r, response, newColors, made) ==
    /\ req' = r
    /\ resp' = response
    /\ before' = colors
    /\ colors' = newColors
    /\ storeCalls' = made
    /\ served' = TRUE
    /\ UNCHANGED <<tools, concVars>>

\* handleInitialize leaving Result unset
handleInitializeNoResult(r) ==
    Return(r, JSONRPCResponse(r.ID, NoResult, NoError), colors, <<>>)

\* handleInitialize starting over with an empty store
handleInitializeResetsStore(r) ==
    Return(r, JSONRPCResponse(r.ID, InitializeResult, NoError), NewColorStorage, <<>>)
handleInitialize(r) ==
    Return(r, JSONRPCResponse(r.ID, InitializeResult, NoError), colors, <<>>)

\* handleToolsList answering with no tools until initialize was handled
handleToolsListAfterInitialize(r) ==
    \E order \in Orders(DOMAIN tools) :
        Return(r, JSONRPCResponse(r.ID,
                                  ToolsResult(IF session.initialized
                                              THEN [i \in 1..Len(order) |-> tools[order[i]]]
                                              ELSE <<>>),
                                  NoError),
               colors, <<>>)
\* handleToolsList with tools := make([]Tool, len(s.tools)): the appended
\* tools follow len(s.tools) zero Tool values
handleToolsListMakeLen(r) ==
    \E order \in Orders(DOMAIN tools) :
        Return(r, JSONRPCResponse(r.ID,
                                  ToolsResult([i \in 1..Len(order) |->
                                                   Tool("", "", ToolSchema("", {}, <<>>))]
                                                  \o [i \in 1..Len(order) |-> tools[order[i]]]),
                                  NoError),
               colors, <<>>)
handleToolsList(r) ==
    \E order \in Orders(DOMAIN tools) :
        Return(r, JSONRPCResponse(r.ID,
                                  ToolsResult([i \in 1..Len(order) |-> tools[order[i]]]),
                                  NoError),
               colors, <<>>)

\* handleAddColor without the test for the empty string
handleAddColorNoEmptyCheck(r, args) ==
    LET color == AssertString(ArgsColor(args))
    IN IF ~color.ok
       THEN Return(r, JSONRPCResponse(r.ID, NoResult,
                                      JSONRPCError(-32602, "Color parameter required")),
                   colors, <<>>)
       ELSE LET res == AddColor(colors, color.val)
            IN Return(r, JSONRPCResponse(r.ID, ContentResult(res.message), NoError),
                      res.colors, <<"AddColor">>)

\* handleAddColor answering a duplicate with an error
handleAddColorDuplicateIsError(r, args) ==
    LET color == AssertString(ArgsColor(args))
    IN IF ~color.ok \/ color.val = ""
       THEN Return(r, JSONRPCResponse(r.ID, NoResult,
                                      JSONRPCError(-32602, "Color parameter required")),
                   colors, <<>>)
       ELSE LET res == AddColor(colors, color.val)
            IN IF res.ok
               THEN Return(r, JSONRPCResponse(r.ID, ContentResult(res.message), NoError),
                           res.colors, <<"AddColor">>)
               ELSE Return(r, JSONRPCResponse(r.ID, NoResult,
                                              JSONRPCError(-32602, res.message)),
                           res.colors, <<"AddColor">>)

handleAddColor(r, args) ==
    LET color == AssertString(ArgsColor(args))
    IN IF ~color.ok \/ color.val = ""
       THEN Return(r, JSONRPCResponse(r.ID, NoResult,
                                      JSONRPCError(-32602, "Color parameter required")),
                   colors, <<>>)
       ELSE LET res == AddColor(colors, color.val)
            IN Return(r, JSONRPCResponse(r.ID, ContentResult(res.message), NoError),
                      res.colors, <<"AddColor">>)

\* handleGetColors listing only the color named in arguments, when one is
handleGetColorsFiltersByColor(r, args) ==
    LET res == GetColors(colors)
        color == AssertString(ArgsColor(args))
        shown == IF color.ok /\ color.val # ""
                 THEN GetColors(IF IndexOf(colors, color.val) # 0 THEN <<color.val>> ELSE <<>>)
                 ELSE res
    IN Return(r, JSONRPCResponse(r.ID, ContentResult(shown.text), NoError),
              colors, <<"GetColors">>)
handleGetColors(r, args) ==
    LET res == GetColors(colors)
    IN Return(r, JSONRPCResponse(r.ID, ContentResult(res.text), NoError),
              colors, <<"GetColors">>)

\* handleRemoveColor without the test for the empty string
handleRemoveColorNoEmptyCheck(r, args) ==
    LET color == AssertString(ArgsColor(args))
    IN IF ~color.ok
       THEN Return(r, JSONRPCResponse(r.ID, NoResult,
                                      JSONRPCError(-32602, "Color parameter required")),
                   colors, <<>>)
       ELSE LET res == RemoveColor(colors, color.val)
            IN Return(r, JSONRPCResponse(r.ID, ContentResult(res.message), NoError),
                      res.colors, <<"RemoveColor">>)

handleRemoveColor(r, args) ==
    LET color == AssertString(ArgsColor(args))
    IN IF ~color.ok \/ color.val = ""
       THEN Return(r, JSONRPCResponse(r.ID, NoResult,
                                      JSONRPCError(-32602, "Color parameter required")),
                   colors, <<>>)
       ELSE LET res == RemoveColor(colors, color.val)
            IN Return(r, JSONRPCResponse(r.ID, ContentResult(res.message), NoError),
                      res.colors, <<"RemoveColor">>)

handleClearColors(r, args) ==
    LET res == ClearColors(colors)
    IN Return(r, JSONRPCResponse(r.ID, ContentResult(res.message), NoError),
              res.colors, <<"ClearColors">>)

\* the error returns of handleToolsCall
\* (InvalidParamsResponse with ID: nil)
InvalidParamsResponseNoID(r) ==
    JSONRPCResponse(NilV, NoResult, JSONRPCError(-32602, "Invalid params"))
\* the params error under the code of an invalid request
InvalidParamsResponseInvalidRequest(r) ==
    JSONRPCResponse(r.ID, NoResult, JSONRPCError(-32600, "Invalid params"))
InvalidParamsResponse(r) ==
    JSONRPCResponse(r.ID, NoResult, JSONRPCError(-32602, "Invalid params"))
ToolNameRequiredResponse(r) ==
    JSONRPCResponse(r.ID, NoResult, JSONRPCError(-32602, "Tool name required"))
\* (ToolNotFoundResponse with the invalid-params code)
ToolNotFoundAsInvalidParams(r) ==
    JSONRPCResponse(r.ID, NoResult, JSONRPCError(-32602, "Tool not found"))
ToolNotFoundResponse(r) ==
    JSONRPCResponse(r.ID, NoResult, JSONRPCError(-32601, "Tool not found"))

\* handleToolsCall dispatching without the test on the name assertion
handleToolsCallNoNameCheck(r) ==
    IF r.Params.kind # "object"
    THEN Return(r, InvalidParamsResponse(r), colors, <<>>)
    ELSE LET toolName == AssertString(r.Params.name)
             arguments == AssertArgsMap(r.Params.arguments)
         IN \/ toolName.val = "add_color" /\ handleAddColor(r, arguments)
            \/ toolName.val = "get_colors" /\ handleGetColors(r, arguments)
            \/ toolName.val = "remove_color" /\ handleRemoveColor(r, arguments)
            \/ toolName.val = "clear_colors" /\ handleClearColors(r, arguments)
            \/ /\ toolName.val \notin {"add_color", "get_colors", "remove_color",
                                       "clear_colors"}
               /\ Return(r, ToolNotFoundResponse(r), colors, <<>>)

handleToolsCall(r) ==
    IF r.Params.kind # "object"
    THEN Return(r, InvalidParamsResponse(r), colors, <<>>)
    ELSE LET toolName == AssertString(r.Params.name)
             arguments == AssertArgsMap(r.Params.arguments)
         IN IF ~toolName.ok
            THEN Return(r, ToolNameRequiredResponse(r), colors, <<>>)
            ELSE \/ toolName.val = "add_color" /\ handleAddColor(r, arguments)
                 \/ toolName.val = "get_colors" /\ handleGetColors(r, arguments)
                 \/ toolName.val = "remove_color" /\ handleRemoveColor(r, arguments)
                 \/ toolName.val = "clear_colors" /\ handleClearColors(r, arguments)
                 \/ /\ toolName.val \notin {"add_color", "get_colors", "remove_color",
                                            "clear_colors"}
                    /\ Return(r, ToolNotFoundResponse(r), colors, <<>>)

\* the default case of HandleRequest
MethodNotFoundResponse(r) ==
    JSONRPCResponse(r.ID, NoResult, JSONRPCError(-32601, "Method not found"))

\* HandleRequest with the default case falling into initialize
HandleRequestDefaultInitialize(r) ==
    \/ r.Method = "tools/list" /\ handleToolsList(r)
    \/ r.Method = "tools/call" /\ handleToolsCall(r)
    \/ r.Method \notin {"tools/list", "tools/call"} /\ handleInitialize(r)

HandleRequest(r) ==
    \/ r.Method = "initialize" /\ handleInitialize(r)
    \/ r.Method = "tools/list" /\ handleToolsList(r)
    \/ r.Method = "tools/call" /\ handleToolsCall(r)
    \/ /\ r.Method \notin {"initialize", "tools/list", "tools/call"}
       /\ Return(r, MethodNotFoundResponse(r), colors, <<>>)

Next == \E r \in Requests : HandleRequest(r) /\ UNCHANGED <<session, ioVars>>

Spec == Init /\ [][Next]_vars

\* the dispatcher on requests of every shape
ShapeNext == \E r \in ShapeRequests : HandleRequest(r) /\ UNCHANGED <<session, ioVars>>

ShapeSpec == Init /\ [][ShapeNext]_vars

\* ------------------------------------------------------------------------
\* The single-file server (main.go): MCPServer over the global favoriteColors,
\* each handler as the list it leaves and the response it returns
\* ------------------------------------------------------------------------
MCPServer_Error(r, fc, code, message) ==
    [favoriteColors |-> fc,
     resp |-> JSONRPCResponse(r.ID, NoResult, JSONRPCError(code, message))]
MCPServer_Content(r, fc, text) ==
    [favoriteColors |-> fc, resp |-> JSONRPCResponse(r.ID, ContentResult(text), NoError)]

\* handleAddColor without the loop over favoriteColors
MCPServer_handleAddColorNoLoop(r, args, fc) ==
    LET color == AssertString(ArgsColor(args))
    IN IF ~color.ok \/ color.val = ""
       THEN MCPServer_Error(r, fc, -32602, "Color parameter required")
       ELSE MCPServer_Content(r, Append(fc, color.val),
                              "Successfully added '" \o color.val
                                  \o "' to your favorite colors!")
MCPServer_handleAddColor(r, args, fc) ==
    LET color == AssertString(ArgsColor(args))
    IN IF ~color.ok \/ color.val = ""
       THEN MCPServer_Error(r, fc, -32602, "Color parameter required")
       ELSE IF \E i \in 1..Len(fc) : fc[i] = color.val
       THEN MCPServer_Content(r, fc, "Color '" \o color.val
                                        \o "' is already in your favorites")
       ELSE MCPServer_Content(r, Append(fc, color.val),
                              "Successfully added '" \o color.val
                                  \o "' to your favorite colors!")

\* handleGetColors: the text built over a copy of favoriteColors, from entry i on
RECURSIVE MCPServer_lines(_, _)
MCPServer_lines(cs, i) ==
    IF i > Len(cs) THEN ""
    ELSE ToString(i) \o ". " \o cs[i] \o "\n" \o MCPServer_lines(cs, i + 1)
MCPServer_handleGetColors(r, args, fc) ==
    MCPServer_Content(r, fc,
                      IF Len(fc) = 0
                      THEN "You have no favorite colors yet."
                      ELSE "Your favorite colors (" \o ToString(Len(fc)) \o " total):\n"
                               \o MCPServer_lines(fc, 1))

MCPServer_handleRemoveColor(r, args, fc) ==
    LET color == AssertString(ArgsColor(args))
    IN IF ~color.ok \/ color.val = ""
       THEN MCPServer_Error(r, fc, -32602, "Color parameter required")
       ELSE IF \E i \in 1..Len(fc) : fc[i] = color.val
       THEN LET i == CHOOSE k \in 1..Len(fc) :
                         fc[k] = color.val /\ \A j \in 1..(k - 1) : fc[j] # color.val
            IN MCPServer_Content(r, [j \in 1..(Len(fc) - 1) |->
                                        IF j < i THEN fc[j] ELSE fc[j + 1]],
                                 "Successfully removed '" \o color.val
                                     \o "' from your favorite colors!")
       ELSE MCPServer_Content(r, fc, "Color '" \o color.val
                                        \o "' was not found in your favorites")

MCPServer_handleClearColors(r, args, fc) ==
    MCPServer_Content(r, <<>>, "Successfully cleared " \o ToString(Len(fc))
                                  \o " favorite colors!")

MCPServer_handleToolsCall(r, fc) ==
    IF r.Params.kind # "object"
    THEN MCPServer_Error(r, fc, -32602, "Invalid params")
    ELSE LET toolName == AssertString(r.Params.name)
             arguments == AssertArgsMap(r.Params.arguments)
         IN IF ~toolName.ok THEN MCPServer_Error(r, fc, -32602, "Tool name required")
            ELSE CASE toolName.val = "add_color" -> MCPServer_handleAddColor(r, arguments, fc)
                   [] toolName.val = "get_colors" -> MCPServer_handleGetColors(r, arguments, fc)
                   [] toolName.val = "remove_color" ->
                          MCPServer_handleRemoveColor(r, arguments, fc)
                   [] toolName.val = "clear_colors" ->
                          MCPServer_handleClearColors(r, arguments, fc)
                   [] OTHER -> MCPServer_Error(r, fc, -32601, "Tool not found")

\* MCPServer.HandleRequest, with handleInitialize and handleToolsList.  The
\* order in which handleToolsList visits the map is open: its result is kept
\* as the set of the tools it returns, which stands for all their orders
MCPServer_HandleRequest(r) ==
    \/ /\ r.Method = "initialize"
       /\ legacy' = [legacy EXCEPT !.resp = JSONRPCResponse(r.ID, InitializeResult, NoError)]
    \/ /\ r.Method = "tools/list"
       /\ legacy' = [legacy EXCEPT !.resp =
                         JSONRPCResponse(r.ID,
                                         ToolsResult({legacy.tools[n] : n \in DOMAIN legacy.tools}),
                                         NoError)]
    \/ /\ r.Method = "tools/call"
       /\ LET out == MCPServer_handleToolsCall(r, legacy.favoriteColors)
          IN legacy' = [legacy EXCEPT !.favoriteColors = out.favoriteColors,
                                      !.resp = out.resp]
    \/ /\ r.Method \notin {"initialize", "tools/list", "tools/call"}
       /\ legacy' = [legacy EXCEPT !.resp = JSONRPCResponse(r.ID, NoResult,
                                               JSONRPCError(-32601, "Method not found"))]

\* both servers, started on an empty list, are fed the same requests
EquivNext ==
    \E r \in ShapeRequests :
        /\ HandleRequest(r)
        /\ MCPServer_HandleRequest(r)
        /\ UNCHANGED <<session, alive, stdin, scanned, stdout, exchange, registered>>

EquivSpec == Init /\ [][EquivNext]_vars

\* ------------------------------------------------------------------------
\* One client session: the requests of a single client, handled one after
\* the other, with the session the client has seen so far kept next to the
\* server's state
\* ------------------------------------------------------------------------
SessionParams ==
    {NilParams}
        \cup {ParamsObj(StrV(n), a) :
                 n \in ToolNames \cup {"unknown_tool"},
                 a \in {NilArgs, [kind |-> "string", color |-> NilV]}
                          \cup {ArgsObj(StrV(c)) : c \in Colors}}
SessionRequests == {r \in Requests : r.ID = NumV("1") /\ r.Params \in SessionParams}

\* the color r asks to add when r is a well-formed add_color call, "" otherwise
AddSent(r) ==
    IF /\ r.Method = "tools/call"
       /\ r.Params.kind = "object"
       /\ r.Params.name = StrV("add_color")
       /\ r.Params.arguments.kind = "object"
       /\ r.Params.arguments.color.kind = "string"
    THEN r.Params.arguments.color.str
    ELSE ""

\* the session after r was handled: the list losing an entry starts a new
\* stretch of adds, an add_color of a color not in the list joins the stretch
Follow(r) ==
    session' =
        [initialized |-> session.initialized \/ r.Method = "initialize",
         adds |-> IF Len(colors') < Len(colors)
                  THEN {}
                  ELSE IF AddSent(r) # "" /\ IndexOf(colors, AddSent(r)) = 0
                       THEN session.adds \cup {[list |-> colors, color |-> AddSent(r)]}
                       ELSE session.adds]

SessionNext ==
    \E r \in SessionRequests : HandleRequest(r) /\ Follow(r) /\ UNCHANGED ioVars

SessionSpec == Init /\ [][SessionNext]_vars

\* ------------------------------------------------------------------------
\* Transports (internal/transport): the process starts one transport over a
\* new server.  The stdio loop handles one line per iteration; an HTTP
\* exchange on /mcp is taken as one step, from the request to the response
\* written.
\* ------------------------------------------------------------------------
WireParams ==
    {NilParams}
        \cup {ParamsObj(StrV("add_color"), ArgsObj(StrV(c))) : c \in Colors}
        \cup {ParamsObj(StrV(n), NilArgs) : n \in {"get_colors", "clear_colors"}}
WireRequests ==
    {r \in Requests : /\ r.ID = NumV("1")
                      /\ \/ r.Method = "initialize" /\ r.Params = NilParams
                         \/ r.Method = "tools/call" /\ r.Params \in WireParams}
\* a call of a tool that takes no arguments
CallRequest(name) ==
    JSONRPCRequest(NumV("1"), "tools/call", ParamsObj(StrV(name), NilArgs))

StdinLines ==
    {BlankText, GarbageText, TrailingText(CallRequest("clear_colors")), LongText(CallRequest("get_colors"))}
        \cup {RequestText(r) : r \in WireRequests}
HTTPMethods == {"POST", "OPTIONS", "GET", "DELETE"}
HTTPBodies ==
    {BlankText, GarbageText, TrailingText(CallRequest("clear_colors"))}
        \cup {RequestText(r) : r \in WireRequests}

\* main: transport.NewStdioTransport().Run() or transport.NewHTTPTransport().Run()
Start(transportType) ==
    /\ alive = "off"
    /\ alive' = transportType
    /\ UNCHANGED <<storeVars, concVars, dispVars, stdin, scanned, stdout, exchange, legacy, registered>>

\* the client writes one more line to standard input
WriteLine(line) ==
    /\ alive = "stdio"
    /\ Len(stdin) < MaxLines
    /\ stdin' = Append(stdin, line)
    /\ UNCHANGED <<storeVars, concVars, dispVars, alive, scanned, stdout, exchange, legacy, registered>>

\* StdioTransport.Run, one iteration of the loop.  A line the scanner cannot
\* deliver ends the loop: Run returns scanner.Err() and main exits the process
\* with log.Fatalf
StdioIteration ==
    /\ alive = "stdio"
    /\ scanned < Len(stdin)
    /\ LET line == stdin[scanned + 1]
       IN IF ~ScanDelivers(line)
          THEN /\ alive' = "exited"
               /\ UNCHANGED <<storeVars, concVars, dispVars, stdin, scanned, stdout, exchange, legacy, registered>>
          ELSE /\ scanned' = scanned + 1
               /\ IF line.kind = "blank" \/ ~Unmarshal(line).ok
                  THEN UNCHANGED <<storeVars, concVars, dispVars, alive, stdin, stdout,
                                   exchange, legacy, registered>>
                  ELSE /\ HandleRequest(Unmarshal(line).req)
                       /\ stdout' = Append(stdout, JSONLine(Marshal(resp')))
                       /\ UNCHANGED <<session, alive, stdin, exchange, legacy, registered>>

\* standard input is closed and every line was handled: Scan returns false,
\* Run returns nil and main returns
StdioEOF ==
    /\ alive = "stdio"
    /\ scanned = Len(stdin)
    /\ alive' = "exited"
    /\ UNCHANGED <<storeVars, concVars, dispVars, stdin, scanned, stdout, exchange, legacy, registered>>

\* handleMCP without the check of the method
handleMCPAnyMethod(h) ==
    /\ alive = "http"
    /\ IF h.Method = "OPTIONS"
       THEN /\ exchange' = Exchange(h, 200, CORSHeaders, NoBody, FALSE, FALSE)
            /\ UNCHANGED <<storeVars, concVars, dispVars, alive, stdin, scanned, stdout, legacy, registered>>
       ELSE IF ~Decode(h.Body).ok
       THEN /\ exchange' = Exchange(h, 200, CORSHeaders \cup MCPHeaders,
                                    JSONLine(Marshal(ParseErrorResponse)), TRUE, FALSE)
            /\ UNCHANGED <<storeVars, concVars, dispVars, alive, stdin, scanned, stdout, legacy, registered>>
       ELSE /\ HandleRequest(Decode(h.Body).req)
            /\ exchange' = Exchange(h, 200, CORSHeaders \cup MCPHeaders,
                                    JSONLine(Marshal(resp')), TRUE, TRUE)
            /\ UNCHANGED <<session, alive, stdin, scanned, stdout, legacy, registered>>
\* corsHandler(ht.handleMCP) on one request
handleMCP(h) ==
    /\ alive = "http"
    /\ IF h.Method = "OPTIONS"
       THEN /\ exchange' = Exchange(h, 200, CORSHeaders, NoBody, FALSE, FALSE)
            /\ UNCHANGED <<storeVars, concVars, dispVars, alive, stdin, scanned, stdout, legacy, registered>>
       ELSE IF h.Method # "POST"
       THEN /\ exchange' = Exchange(h, 405, CORSHeaders \cup MCPHeaders
                                             \cup {"X-Content-Type-Options"},
                                    ErrorBody("Method not allowed"), FALSE, FALSE)
            /\ UNCHANGED <<storeVars, concVars, dispVars, alive, stdin, scanned, stdout, legacy, registered>>
       ELSE IF ~Decode(h.Body).ok
       THEN /\ exchange' = Exchange(h, 200, CORSHeaders \cup MCPHeaders,
                                    JSONLine(Marshal(ParseErrorResponse)), TRUE, FALSE)
            /\ UNCHANGED <<storeVars, concVars, dispVars, alive, stdin, scanned, stdout, legacy, registered>>
       ELSE /\ HandleRequest(Decode(h.Body).req)
            /\ exchange' = Exchange(h, 200, CORSHeaders \cup MCPHeaders,
                                    JSONLine(Marshal(resp')), TRUE, TRUE)
            /\ UNCHANGED <<session, alive, stdin, scanned, stdout, legacy, registered>>

TransportNext ==
    \/ \E transportType \in {"stdio", "http"} : Start(transportType)
    \/ \E line \in StdinLines : WriteLine(line)
    \/ StdioIteration
    \/ StdioEOF
    \/ \E m \in HTTPMethods, b \in HTTPBodies : handleMCP(HTTPRequest(m, b))

TransportSpec == Init /\ [][TransportNext]_vars


\* ------------------------------------------------------------------------
\* Color Store under concurrent callers (internal/storage/colors.go).
\* Every goroutine runs one store method at a time; a method is a sequence
\* of steps: take the lock, read cs.colors, write cs.colors, set the return
\* values, release the lock (deferred), return to the caller.
\* ------------------------------------------------------------------------
StoreOps ==
    {[op |-> "AddColor", arg |-> c] : c \in Colors}
        \cup {[op |-> "RemoveColor", arg |-> c] : c \in Colors}
        \cup {[op |-> "GetColors", arg |-> ""], [op |-> "ClearColors", arg |-> ""],
              [op |-> "Count", arg |-> ""]}

\* return values of a store method: (message, bool), (colors, text), (message, int), int
NoRet == [ok |-> FALSE, count |-> 0, colors |-> <<>>, text |-> ""]
RetMsgOk(message, ok) == [ok |-> ok, count |-> 0, colors |-> <<>>, text |-> message]
RetColors(cs, text) == [ok |-> FALSE, count |-> 0, colors |-> cs, text |-> text]
RetMsgCount(message, n) == [ok |-> FALSE, count |-> n, colors |-> <<>>, text |-> message]
RetCount(n) == [ok |-> FALSE, count |-> n, colors |-> <<>>, text |-> ""]

\* the sequential meaning of one call: the list after it and its return values
Apply(cs, o) ==
    CASE o.op = "AddColor" ->
             LET r == AddColor(cs, o.arg)
             IN [colors |-> r.colors, ret |-> RetMsgOk(r.message, r.ok)]
      [] o.op = "RemoveColor" ->
             LET r == RemoveColor(cs, o.arg)
             IN [colors |-> r.colors, ret |-> RetMsgOk(r.message, r.ok)]
      [] o.op = "ClearColors" ->
             LET r == ClearColors(cs)
             IN [colors |-> r.colors, ret |-> RetMsgCount(r.message, r.count)]
      [] o.op = "GetColors" ->
             LET r == GetColors(cs)
             IN [colors |-> cs, ret |-> RetColors(r.colors, r.text)]
      [] OTHER -> [colors |-> cs, ret |-> RetCount(Count(cs))]

\* the calls that have released the lock, and those that have returned
Released == {i \in 1..Len(calls) : calls[i].released}
Returned == {i \in 1..Len(calls) : calls[i].done}

\* sync.RWMutex: Lock succeeds when no goroutine holds the lock in either mode,
\* RLock when no goroutine holds it for writing
CanLockUnguarded == TRUE
\* Lock succeeding while readers hold the lock
CanLockIgnoresReaders == mutexW = 0
CanLock == mutexW = 0 /\ mutexR = {}
CanRLockUnguarded == TRUE
CanRLock == mutexW = 0

SetRet(t, ret) == calls' = [calls EXCEPT ![cur[t]].ret = ret]

\* a caller invokes a store method; idle goroutines are interchangeable, so the
\* call runs on the first idle one
Invoke(t, o) ==
    /\ pc[t] = "idle"
    /\ \A u \in 1..(t - 1) : pc[u] # "idle"
    /\ Len(calls) < MaxCalls
    /\ calls' = Append(calls, [op |-> o.op, arg |-> o.arg, pre |-> Released,
                               released |-> FALSE, done |-> FALSE, ret |-> NoRet])
    /\ cur' = [cur EXCEPT ![t] = Len(calls) + 1]
    /\ pc' = [pc EXCEPT ![t] = IF o.op \in {"GetColors", "Count"} THEN "rlock" ELSE "lock"]
    /\ UNCHANGED <<colors, tools, mutexW, mutexR, idx, buf, dispVars, ioVars, mem>>

\* cs.mutex.Lock()
Lock(t) ==
    /\ pc[t] = "lock"
    /\ CanLock
    /\ mutexW' = t
    /\ pc' = [pc EXCEPT ![t] = CASE calls[cur[t]].op = "AddColor" -> "add_scan"
                                 [] calls[cur[t]].op = "RemoveColor" -> "remove_scan"
                                 [] OTHER -> "clear_len"]
    /\ UNCHANGED <<colors, tools, mutexR, cur, idx, buf, calls, dispVars, ioVars, mem>>

\* cs.mutex.RLock()
RLock(t) ==
    /\ pc[t] = "rlock"
    /\ CanRLock
    /\ mutexR' = mutexR \cup {t}
    /\ pc' = [pc EXCEPT ![t] = IF calls[cur[t]].op = "GetColors" THEN "get_make"
                                                                 ELSE "count_len"]
    /\ UNCHANGED <<colors, tools, mutexW, cur, idx, buf, calls, dispVars, ioVars, mem>>

\* AddColor returning on a match with the lock still held
AddScanKeepsLock(t) ==
    /\ pc[t] = "add_scan"
    /\ LET color == calls[cur[t]].arg
       IN IF IndexOf(colors, color) # 0
          THEN /\ SetRet(t, RetMsgOk(AlreadyMsg(color), FALSE))
               /\ pc' = [pc EXCEPT ![t] = "return"]
          ELSE /\ pc' = [pc EXCEPT ![t] = "add_read"]
               /\ UNCHANGED calls
    /\ UNCHANGED <<colors, tools, mutexW, mutexR, cur, idx, buf, dispVars, ioVars, mem>>

\* AddColor without the loop over cs.colors
AddScanNoCheck(t) ==
    /\ pc[t] = "add_scan"
    /\ pc' = [pc EXCEPT ![t] = "add_read"]
    /\ UNCHANGED <<colors, tools, mutexW, mutexR, cur, idx, buf, calls, dispVars, ioVars, mem>>

\* AddColor: the loop over cs.colors; on a match, return (already, false)
AddScan(t) ==
    /\ pc[t] = "add_scan"
    /\ LET color == calls[cur[t]].arg
       IN IF IndexOf(colors, color) # 0
          THEN /\ SetRet(t, RetMsgOk(AlreadyMsg(color), FALSE))
               /\ pc' = [pc EXCEPT ![t] = "unlock"]
          ELSE /\ pc' = [pc EXCEPT ![t] = "add_read"]
               /\ UNCHANGED calls
    /\ UNCHANGED <<colors, tools, mutexW, mutexR, cur, idx, buf, dispVars, ioVars, mem>>

\* AddColor: append(cs.colors, color) reads cs.colors ...
AddRead(t) ==
    /\ pc[t] = "add_read"
    /\ buf' = [buf EXCEPT ![t] = colors]
    /\ pc' = [pc EXCEPT ![t] = "add_write"]
    /\ UNCHANGED <<colors, tools, mutexW, mutexR, cur, idx, calls, dispVars, ioVars, mem>>

\* ... and cs.colors = is assigned the result; return (added, true)
AddWrite(t) ==
    /\ pc[t] = "add_write"
    /\ colors' = Append(buf[t], calls[cur[t]].arg)
    /\ SetRet(t, RetMsgOk(AddedMsg(calls[cur[t]].arg), TRUE))
    /\ pc' = [pc EXCEPT ![t] = "unlock"]
    /\ UNCHANGED <<tools, mutexW, mutexR, cur, idx, buf, dispVars, ioVars, mem>>

\* RemoveColor: the loop over cs.colors; without a match, return (not found, false)
RemoveScan(t) ==
    /\ pc[t] = "remove_scan"
    /\ LET color == calls[cur[t]].arg
           i == IndexOf(colors, color)
       IN IF i # 0
          THEN /\ idx' = [idx EXCEPT ![t] = i]
               /\ pc' = [pc EXCEPT ![t] = "remove_read"]
               /\ UNCHANGED calls
          ELSE /\ SetRet(t, RetMsgOk(NotFoundMsg(color), FALSE))
               /\ pc' = [pc EXCEPT ![t] = "unlock"]
               /\ UNCHANGED idx
    /\ UNCHANGED <<colors, tools, mutexW, mutexR, cur, buf, dispVars, ioVars, mem>>

\* RemoveColor: append(cs.colors[:i], cs.colors[i+1:]...) reads cs.colors ...
RemoveRead(t) ==
    /\ pc[t] = "remove_read"
    /\ buf' = [buf EXCEPT ![t] = colors]
    /\ pc' = [pc EXCEPT ![t] = "remove_write"]
    /\ UNCHANGED <<colors, tools, mutexW, mutexR, cur, idx, calls, dispVars, ioVars, mem>>

\* ... and cs.colors = is assigned the result; return (removed, true)
RemoveWrite(t) ==
    /\ pc[t] = "remove_write"
    /\ colors' = RemoveAt(buf[t], idx[t])
    /\ SetRet(t, RetMsgOk(RemovedMsg(calls[cur[t]].arg), TRUE))
    /\ pc' = [pc EXCEPT ![t] = "unlock"]
    /\ UNCHANGED <<tools, mutexW, mutexR, cur, idx, buf, dispVars, ioVars, mem>>

\* ClearColors taking the count of the list it has already emptied
ClearLenOfEmptied(t) ==
    /\ pc[t] = "clear_len"
    /\ idx' = [idx EXCEPT ![t] = 0]
    /\ pc' = [pc EXCEPT ![t] = "clear_write"]
    /\ UNCHANGED <<colors, tools, mutexW, mutexR, cur, buf, calls, dispVars, ioVars, mem>>

\* ClearColors: clearedCount := len(cs.colors)
ClearLen(t) ==
    /\ pc[t] = "clear_len"
    /\ idx' = [idx EXCEPT ![t] = Len(colors)]
    /\ pc' = [pc EXCEPT ![t] = "clear_write"]
    /\ UNCHANGED <<colors, tools, mutexW, mutexR, cur, buf, calls, dispVars, ioVars, mem>>

\* ClearColors: cs.colors = []string{}; return (cleared, clearedCount)
ClearWrite(t) ==
    /\ pc[t] = "clear_write"
    /\ colors' = <<>>
    /\ SetRet(t, RetMsgCount(ClearedMsg(idx[t]), idx[t]))
    /\ pc' = [pc EXCEPT ![t] = "unlock"]
    /\ UNCHANGED <<tools, mutexW, mutexR, cur, idx, buf, dispVars, ioVars, mem>>

\* GetColors: colors := make([]string, len(cs.colors))
GetMake(t) ==
    /\ pc[t] = "get_make"
    /\ idx' = [idx EXCEPT ![t] = Len(colors)]
    /\ pc' = [pc EXCEPT ![t] = "get_copy"]
    /\ UNCHANGED <<colors, tools, mutexW, mutexR, cur, buf, calls, dispVars, ioVars, mem>>

\* GetColors: copy(colors, cs.colors), render the text; return (colors, text)
GetCopy(t) ==
    /\ pc[t] = "get_copy"
    /\ LET snapshot == CopyColors(idx[t], colors)
       IN /\ buf' = [buf EXCEPT ![t] = snapshot]
          /\ SetRet(t, RetColors(snapshot, RenderText(snapshot)))
    /\ pc' = [pc EXCEPT ![t] = "runlock"]
    /\ UNCHANGED <<colors, tools, mutexW, mutexR, cur, idx, dispVars, ioVars, mem>>

\* Count: return len(cs.colors)
CountLen(t) ==
    /\ pc[t] = "count_len"
    /\ SetRet(t, RetCount(Len(colors)))
    /\ pc' = [pc EXCEPT ![t] = "runlock"]
    /\ UNCHANGED <<colors, tools, mutexW, mutexR, cur, idx, buf, dispVars, ioVars, mem>>

\* defer cs.mutex.Unlock()
Unlock(t) ==
    /\ pc[t] = "unlock"
    /\ mutexW' = IF mutexW = t THEN 0 ELSE mutexW
    /\ calls' = [calls EXCEPT ![cur[t]].released = TRUE]
    /\ pc' = [pc EXCEPT ![t] = "return"]
    /\ UNCHANGED <<colors, tools, mutexR, cur, idx, buf, dispVars, ioVars, mem>>

\* the method returning with the shared lock still held
RUnlockKeepsLock(t) ==
    /\ pc[t] = "runlock"
    /\ calls' = [calls EXCEPT ![cur[t]].released = TRUE]
    /\ pc' = [pc EXCEPT ![t] = "return"]
    /\ UNCHANGED <<colors, tools, mutexW, mutexR, cur, idx, buf, dispVars, ioVars, mem>>

\* defer cs.mutex.RUnlock()
RUnlock(t) ==
    /\ pc[t] = "runlock"
    /\ mutexR' = mutexR \ {t}
    /\ calls' = [calls EXCEPT ![cur[t]].released = TRUE]
    /\ pc' = [pc EXCEPT ![t] = "return"]
    /\ UNCHANGED <<colors, tools, mutexW, cur, idx, buf, dispVars, ioVars, mem>>

\* the method returns to its caller
Finish(t) ==
    /\ pc[t] = "return"
    /\ calls' = [calls EXCEPT ![cur[t]].done = TRUE]
    /\ cur' = [cur EXCEPT ![t] = 0]
    /\ idx' = [idx EXCEPT ![t] = 0]
    /\ buf' = [buf EXCEPT ![t] = <<>>]
    /\ pc' = [pc EXCEPT ![t] = "idle"]
    /\ UNCHANGED <<colors, tools, mutexW, mutexR, dispVars, ioVars, mem>>

ConcNext ==
    \E t \in Threads :
        \/ \E o \in StoreOps : Invoke(t, o)
        \/ Lock(t)
        \/ RLock(t)
        \/ AddScan(t)
        \/ AddRead(t)
        \/ AddWrite(t)
        \/ RemoveScan(t)
        \/ RemoveRead(t)
        \/ RemoveWrite(t)
        \/ ClearLen(t)
        \/ ClearWrite(t)
        \/ GetMake(t)
        \/ GetCopy(t)
        \/ CountLen(t)
        \/ Unlock(t)
        \/ RUnlock(t)
        \/ Finish(t)

ConcSpec == Init /\ [][ConcNext]_vars

\* the Go scheduler runs a goroutine that can take a step: while some call that
\* was made is not blocked on the lock, one of them goes on (making a call is
\* the caller's choice and is not forced)
FairConcSpec == ConcSpec /\ WF_vars(ConcNext /\ Len(calls') = Len(calls))

\* the same goroutines on a store that is empty or already holds a color when
\* they start; before keeps the list they started on
RaceInit ==
    /\ colors \in {NewColorStorage, AddColor(NewColorStorage, ColorPool[1]).colors}
    /\ before = colors
    /\ tools = registerTools(NoTools)
    /\ mutexW = 0
    /\ mutexR = {}
    /\ pc = [t \in Threads |-> "idle"]
    /\ cur = [t \in Threads |-> 0]
    /\ idx = [t \in Threads |-> 0]
    /\ buf = [t \in Threads |-> <<>>]
    /\ calls = <<>>
    /\ req = JSONRPCRequest(NilV, "", NilParams)
    /\ resp = JSONRPCResponse(NilV, NoResult, NoError)
    /\ storeCalls = <<>>
    /\ served = FALSE
    /\ session = NoSession
    /\ alive = "off"
    /\ stdin = <<>>
    /\ scanned = 0
    /\ stdout = <<>>
    /\ exchange = NoExchange
    /\ mem = NewMem
    /\ legacy = NewMCPServer
    /\ registered = registerToolsCalls

RaceSpec == RaceInit /\ [][ConcNext]_vars

\* ------------------------------------------------------------------------
\* Color Store with a single caller, as in the storage tests: each
\* method runs from taking the lock to the deferred unlock with no other
\* goroutine around; the caller keeps the last two calls it made, each with
\* the list it was made on and its return values
\* ------------------------------------------------------------------------
SeqStoreOps ==
    {[op |-> "AddColor", arg |-> c] : c \in ListColors}
        \cup {[op |-> "RemoveColor", arg |-> c] : c \in ListColors}
        \cup {[op |-> "GetColors", arg |-> ""], [op |-> "ClearColors", arg |-> ""],
              [op |-> "Count", arg |-> ""]}

SeqCall(o) ==
    /\ \A t \in Threads : pc[t] = "idle"
    /\ LET a == Apply(colors, o)
       IN /\ colors' = a.colors
          /\ calls' = (IF calls = <<>> THEN <<>> ELSE <<calls[Len(calls)]>>)
                          \o <<[op |-> o.op, arg |-> o.arg, from |-> colors, ret |-> a.ret]>>
    /\ UNCHANGED <<tools, mutexW, mutexR, pc, cur, idx, buf, dispVars, ioVars, mem>>

SeqNext == \E o \in SeqStoreOps : SeqCall(o)

SeqSpec == Init /\ [][SeqNext]_vars

\* ------------------------------------------------------------------------
\* Color Store with a single caller and the memory of its slice: each method
\* runs from taking the lock to the deferred unlock; the caller keeps the
\* slice the last GetColors returned and may write to it
\* ------------------------------------------------------------------------
HeapCall(o) ==
    LET cs == View(mem, mem.store)
        i == IndexOf(cs, o.arg)
        r == CASE o.op = "AddColor" ->
                      IF i # 0 THEN [arrays |-> mem.arrays, slice |-> mem.store]
                               ELSE GoAppend(mem, mem.store, o.arg)
               [] o.op = "RemoveColor" ->
                      IF i = 0 THEN [arrays |-> mem.arrays, slice |-> mem.store]
                               ELSE GoRemoveAt(mem, mem.store, i)
               [] o.op = "ClearColors" -> Allocate(mem, <<>>, 0)
               [] OTHER -> GoGetColors(mem)
    IN /\ mem' = Collect([arrays |-> r.arrays,
                          store |-> IF o.op = "GetColors" THEN mem.store ELSE r.slice,
                          got |-> IF o.op = "GetColors" THEN r.slice ELSE mem.got])
       /\ colors' = View(mem', mem'.store)
       /\ UNCHANGED <<tools, mutexW, mutexR, pc, cur, idx, buf, calls, dispVars, ioVars>>

\* the caller assigns to an element of the slice GetColors returned
CallerWrites(i, c) ==
    /\ mem.got.arr # 0
    /\ i \in 1..mem.got.len
    /\ mem' = [mem EXCEPT !.arrays[mem.got.arr][i] = c]
    /\ colors' = View(mem', mem'.store)
    /\ UNCHANGED <<tools, mutexW, mutexR, pc, cur, idx, buf, calls, dispVars, ioVars>>

HeapNext ==
    \/ \E o \in StoreOps \ {[op |-> "Count", arg |-> ""]} : HeapCall(o)
    \/ \E i \in 1..NumColors, c \in Colors : CallerWrites(i, c)

HeapSpec == Init /\ [][HeapNext]_vars

\* ------------------------------------------------------------------------
\* Tool registry after construction: callers of the exported RegisterTool
\* ------------------------------------------------------------------------
\* the tools a caller registers: the four of registerTools, another tool
\* under the name add_color, and a tool under a new name
RegistryTools ==
    {AddColorTool, GetColorsTool, RemoveColorTool, ClearColorsTool,
     Tool("add_color", "Add a color", ToolSchema("object", {}, <<>>)),
     Tool("count_colors", "Count the favorite colors", ToolSchema("object", {}, <<>>))}

Server_RegisterTool(tool) ==
    /\ Len(registered) < Len(registerToolsCalls) + MaxRegistrations
    /\ tools' = RegisterTool(tools, tool)
    /\ registered' = Append(registered, tool)
    /\ UNCHANGED <<colors, concVars, dispVars, alive, stdin, scanned, stdout, exchange, legacy>>

RegistryNext == \E tool \in RegistryTools : Server_RegisterTool(tool)

RegistrySpec == Init /\ [][RegistryNext]_vars


\* ========================================================================
\* Properties
\* ========================================================================
InList(c, cs) == \E i \in 1..Len(cs) : cs[i] = c
NoDuplicates(cs) == \A i, j \in 1..Len(cs) : cs[i] = cs[j] => i = j
AllCalls == 1..Len(calls)

\* ------------------------------------------------------------------------
\* C1: the color list never holds two equal elements (exact comparison),
\* whatever the interleaving of add, remove and clear; and an add(c) that
\* examines the list while c is present reports added=false with the
\* "already in your favorites" message and leaves the list, hence count(),
\* as it was, up to its return.
\* ------------------------------------------------------------------------
\* a step taken while goroutine t is inside an add of a color that is present
DuplicateAddStep(t) ==
    LET i == cur[t]
    IN /\ (pc[t] = "add_scan" /\ InList(calls[i].arg, colors)) =>
              /\ colors' = colors
              /\ pc'[t] # pc[t] =>
                     /\ pc'[t] = "unlock"
                     /\ calls'[i].ret.ok = FALSE
                     /\ calls'[i].ret.text =
                            "Color '" \o calls[i].arg \o "' is already in your favorites"
       /\ (/\ pc[t] \in {"unlock", "return"}
           /\ calls[i].op = "AddColor"
           /\ ~calls[i].ret.ok
           /\ pc'[t] # pc[t]) =>
              /\ colors' = colors
              /\ Len(colors') = Len(colors)
              /\ calls'[i].ret = calls[i].ret

C1_NoTwoEqualColors ==
    /\ [](NoDuplicates(colors))
    /\ [][\A t \in Threads : DuplicateAddStep(t)]_vars

\* an add of a color already in the list has returned added=false
C1_Witness ==
    \E i \in Returned :
        /\ calls[i].op = "AddColor"
        /\ ~calls[i].ret.ok
        /\ InList(calls[i].arg, colors)
        /\ \E j \in calls[i].pre : calls[j].op = "AddColor" /\ calls[j].arg = calls[i].arg

\* ------------------------------------------------------------------------
\* C2: the store is linearizable.  The calls that released the lock, and any
\* of the calls still running, can be put in one sequential order that keeps
\* every call after the calls that had released the lock (hence also after
\* those that had returned) when it was invoked, and in which each call
\* returns what the sequential method returns.
\* ------------------------------------------------------------------------
RECURSIVE Linearizes(_, _)
Linearizes(cs, todo) ==
    \/ todo \cap Released = {}
    \/ \E i \in todo :
           /\ calls[i].pre \cap todo = {}
           /\ LET a == Apply(cs, calls[i])
              IN /\ calls[i].released => a.ret = calls[i].ret
                 /\ Linearizes(a.colors, todo \ {i})

C2_Linearizable == Linearizes(NewColorStorage, AllCalls)

\* an add and a get overlapped (neither had released the lock when the other
\* was invoked), both returned, and the get saw the added color
C2_Witness ==
    \E i, j \in Returned :
        /\ i \notin calls[j].pre /\ j \notin calls[i].pre
        /\ calls[i].op = "AddColor" /\ calls[i].ret.ok
        /\ calls[j].op = "GetColors" /\ calls[j].ret.colors = <<calls[i].arg>>

\* ------------------------------------------------------------------------
\* C3: when all the calls made on the initially empty store are adds of
\* pairwise distinct colors, every add that set its return values reports
\* added=true, and once all have returned count() is the number of calls.
\* ------------------------------------------------------------------------
OnlyDistinctAdds ==
    /\ \A i \in AllCalls : calls[i].op = "AddColor"
    /\ \A i, j \in AllCalls : calls[i].arg = calls[j].arg => i = j

C3_NoAddLost ==
    OnlyDistinctAdds =>
        /\ \A i \in Released : calls[i].ret.ok
        /\ Returned = AllCalls => Count(colors) = Len(calls)

\* at least two adds of distinct colors, all overlapping, have all returned
C3_Witness ==
    /\ OnlyDistinctAdds
    /\ Len(calls) >= 2
    /\ Returned = AllCalls
    /\ \A i \in AllCalls : calls[i].pre = {} /\ calls[i].ret.ok
    /\ Count(colors) = Len(calls)


\* ------------------------------------------------------------------------
\* Dispatcher properties: what the last request handled was and what the
\* response returned for it holds
\* ------------------------------------------------------------------------
IsToolsCall == served /\ req.Method = "tools/call"
\* params is an object whose name is the string n
CallsTool(n) == IsToolsCall /\ req.Params.kind = "object" /\ req.Params.name = StrV(n)
\* arguments is an object whose color is a non-empty string
SendsColor ==
    /\ req.Params.arguments.kind = "object"
    /\ req.Params.arguments.color.kind = "string"
    /\ req.Params.arguments.color.str # ""
ColorSent == req.Params.arguments.color.str
\* the response holds no error and a result of one text content block
IsTextResult(text) ==
    /\ resp.Error.isNil
    /\ resp.Result.kind = "content"
    /\ resp.Result.text = text
    /\ "result" \in EncodedFields(resp)
    /\ "error" \notin EncodedFields(resp)
\* the response holds no result and an error of the given code
IsError(code) ==
    /\ ~resp.Error.isNil
    /\ resp.Error.Code = code
    /\ resp.Result.kind = "nil"
    /\ "error" \in EncodedFields(resp)
    /\ "result" \notin EncodedFields(resp)

\* ------------------------------------------------------------------------
\* C4: a tools/call that is a domain-level no-op (add_color of a color in
\* the list, remove_color of a color not in the list, clear_colors on the
\* empty list) returns a result of one text block with the explanatory
\* message, and no error.
\* ------------------------------------------------------------------------
C4_NoOpsAreResults ==
    /\ (CallsTool("add_color") /\ SendsColor /\ InList(ColorSent, before)) =>
           /\ IsTextResult("Color '" \o ColorSent \o "' is already in your favorites")
           /\ colors = before
    /\ (CallsTool("remove_color") /\ SendsColor /\ ~InList(ColorSent, before)) =>
           /\ IsTextResult("Color '" \o ColorSent \o "' was not found in your favorites")
           /\ colors = before
    /\ (CallsTool("clear_colors") /\ before = <<>>) =>
           /\ IsTextResult("Successfully cleared 0 favorite colors!")
           /\ colors = before

\* an add_color of a color already in the list was answered with a result
C4_Witness ==
    /\ CallsTool("add_color") /\ SendsColor /\ InList(ColorSent, before)
    /\ resp.Result.kind = "content"
    /\ storeCalls = <<"AddColor">>

\* ------------------------------------------------------------------------
\* C5: add_color and remove_color without a non-empty string arguments.color
\* (color absent, "", or not a string; arguments absent or not an object)
\* return error -32602, no result, and leave the list unchanged.
\* ------------------------------------------------------------------------
C5_ColorRequired ==
    ((CallsTool("add_color") \/ CallsTool("remove_color")) /\ ~SendsColor) =>
        /\ IsError(-32602)
        /\ colors = before
        /\ storeCalls = <<>>

\* a remove_color with color "" was answered with the error, the list not empty
C5_Witness ==
    /\ CallsTool("remove_color")
    /\ req.Params.arguments = ArgsObj(StrV(""))
    /\ IsError(-32602)
    /\ before # <<>>

\* ------------------------------------------------------------------------
\* C6: a tools/call whose params is not an object, or whose name is missing
\* or not a string, returns error -32602 before any dispatch: no store
\* method is invoked and the list is unchanged.
\* ------------------------------------------------------------------------
C6_InvalidParams ==
    (IsToolsCall /\ (req.Params.kind # "object" \/ req.Params.name.kind # "string")) =>
        /\ IsError(-32602)
        /\ storeCalls = <<>>
        /\ colors = before

\* params had arguments with a color but a number as name
C6_Witness ==
    /\ IsToolsCall
    /\ req.Params.kind = "object"
    /\ req.Params.name.kind = "number"
    /\ SendsColor
    /\ IsError(-32602)

\* ------------------------------------------------------------------------
\* C7: a tools/call whose name is a string other than the four tool names
\* returns error -32601 "Tool not found", whatever the arguments, and leaves
\* the list unchanged.
\* ------------------------------------------------------------------------
C7_ToolNotFound ==
    (/\ IsToolsCall
     /\ req.Params.kind = "object"
     /\ req.Params.name.kind = "string"
     /\ req.Params.name.str \notin {"add_color", "get_colors", "remove_color", "clear_colors"}) =>
        /\ IsError(-32601)
        /\ resp.Error.Message = "Tool not found"
        /\ colors = before
        /\ storeCalls = <<>>

\* unknown_tool was called without arguments on a list that is not empty
C7_Witness ==
    /\ CallsTool("unknown_tool")
    /\ req.Params.arguments.kind = "nil"
    /\ IsError(-32601)
    /\ before # <<>>

\* ------------------------------------------------------------------------
\* C8: a request whose method is not initialize, tools/list or tools/call
\* returns error -32601 "Method not found", whatever its params, and leaves
\* the list unchanged.
\* ------------------------------------------------------------------------
C8_MethodNotFound ==
    (served /\ req.Method \notin {"initialize", "tools/list", "tools/call"}) =>
        /\ IsError(-32601)
        /\ resp.Error.Message = "Method not found"
        /\ colors = before
        /\ storeCalls = <<>>

\* an unknown method came with params that would be a valid add_color call
C8_Witness ==
    /\ served
    /\ req.Method = "not/a/method"
    /\ req.Params.kind = "object"
    /\ IsError(-32601)

\* ------------------------------------------------------------------------
\* C9: every response carries exactly one of a result and an error, as a
\* value and as encoded.
\* ------------------------------------------------------------------------
C9_ResultXorError ==
    served =>
        /\ (resp.Result.kind # "nil") # (~resp.Error.isNil)
        /\ Cardinality(EncodedFields(resp) \cap {"result", "error"}) = 1

\* responses of both kinds exist: here one with an error and no result
C9_Witness == served /\ ~resp.Error.isNil /\ resp.Result.kind = "nil"

\* ------------------------------------------------------------------------
\* C10: every response carries the ID of its request unchanged; encoded, it
\* has an id field exactly when the request had an ID.
\* ------------------------------------------------------------------------
C10_IdEchoed ==
    served =>
        /\ resp.ID = req.ID
        /\ ("id" \in EncodedFields(resp)) <=> (req.ID.kind # "nil")

\* an error response to a request with a string ID
C10_Witness ==
    /\ served
    /\ req.ID = StrV("req-a")
    /\ resp.ID = StrV("req-a")
    /\ ~resp.Error.isNil

\* ------------------------------------------------------------------------
\* The text a client expects for a list: the literal for the empty list,
\* otherwise a header with the count and one numbered line per entry
\* ------------------------------------------------------------------------
ListedLine(i, c) == ToString(i) \o ". " \o c \o "\n"

\* the first k lines
RECURSIVE Listing(_, _)
Listing(cs, k) == IF k = 0 THEN "" ELSE Listing(cs, k - 1) \o ListedLine(k, cs[k])

ListedText(cs) ==
    IF cs = <<>>
    THEN "You have no favorite colors yet."
    ELSE "Your favorite colors (" \o ToString(Len(cs)) \o " total):\n" \o Listing(cs, Len(cs))

SeqsUpTo(S, n) == UNION {[1..k -> S] : k \in 0..n}
IsPrefix(p, cs) == Len(p) <= Len(cs) /\ \A i \in 1..Len(p) : p[i] = cs[i]

\* ------------------------------------------------------------------------
\* C11: an add_color of a color c not in the list is answered, without
\* error, by "Successfully added 'c' ..." and leaves the list as it was with
\* c appended; and whenever get_colors is handled, for every such add sent
\* since the list last lost an entry, the text lists the entries the list had
\* before that add at their positions, followed by c at the next position.
\* ------------------------------------------------------------------------
C11_AddAppends ==
    /\ (CallsTool("add_color") /\ SendsColor /\ ~InList(ColorSent, before)) =>
           /\ IsTextResult("Successfully added '" \o ColorSent
                               \o "' to your favorite colors!")
           /\ colors = before \o <<ColorSent>>
    /\ CallsTool("get_colors") =>
           \A a \in session.adds :
               \E shown \in SeqsUpTo(Colors, NumColors + 1) :
                   /\ IsPrefix(a.list \o <<a.color>>, shown)
                   /\ IsTextResult(ListedText(shown))

\* get_colors is handled, after an initialize, in a session that added a
\* color to a one-entry list with no entry lost since: the text has the
\* earlier entry on line 1 and the added color on line 2
C11_Witness ==
    /\ CallsTool("get_colors")
    /\ \E a \in session.adds :
           /\ Len(a.list) = 1
           /\ colors = a.list \o <<a.color>>
           /\ IsTextResult("Your favorite colors (2 total):\n1. " \o a.list[1]
                               \o "\n2. " \o a.color \o "\n")
    /\ session.initialized

\* ------------------------------------------------------------------------
\* Single-caller store properties: the last call made, the call before it
\* ------------------------------------------------------------------------
HasLast == Len(calls) >= 1
LastCall == calls[Len(calls)]
HasTwo == Len(calls) = 2
FirstOfTwo == calls[1]

\* ------------------------------------------------------------------------
\* C12: of two consecutive remove(c) calls, the first reports removed=true
\* exactly when c was in the list, the second reports removed=false, and
\* after them count() is lower than before them by 1 when c was in the list
\* and by 0 when it was not.
\* ------------------------------------------------------------------------
C12_RemoveTwice ==
    (/\ HasTwo
     /\ FirstOfTwo.op = "RemoveColor"
     /\ LastCall.op = "RemoveColor"
     /\ FirstOfTwo.arg = LastCall.arg) =>
        LET present == InList(FirstOfTwo.arg, FirstOfTwo.from)
        IN /\ FirstOfTwo.ret.ok <=> present
           /\ ~LastCall.ret.ok
           /\ Len(colors) = Len(FirstOfTwo.from) - (IF present THEN 1 ELSE 0)

\* the color removed twice was the middle one of three
C12_Witness ==
    /\ HasTwo
    /\ FirstOfTwo.op = "RemoveColor"
    /\ LastCall.op = "RemoveColor"
    /\ FirstOfTwo.arg = LastCall.arg
    /\ Len(FirstOfTwo.from) = 3
    /\ FirstOfTwo.from[2] = FirstOfTwo.arg
    /\ FirstOfTwo.ret.ok
    /\ ~LastCall.ret.ok
    /\ Len(colors) = 2

\* ------------------------------------------------------------------------
\* C13: clear() on a list of N entries returns the count N and the message
\* "Successfully cleared N favorite colors!", and leaves count() at 0; on
\* the empty list it returns 0.
\* ------------------------------------------------------------------------
C13_ClearReportsCount ==
    (HasLast /\ LastCall.op = "ClearColors") =>
        /\ LastCall.ret.count = Len(LastCall.from)
        /\ LastCall.ret.text = "Successfully cleared " \o ToString(Len(LastCall.from))
                                   \o " favorite colors!"
        /\ Count(colors) = 0
        /\ LastCall.from = <<>> => LastCall.ret.count = 0

\* a list of three entries was cleared
C13_Witness ==
    /\ HasLast
    /\ LastCall.op = "ClearColors"
    /\ Len(LastCall.from) = 3
    /\ LastCall.ret.count = 3
    /\ LastCall.ret.text = "Successfully cleared 3 favorite colors!"
    /\ colors = <<>>

\* ------------------------------------------------------------------------
\* C14: get() returns the list as it is while the call holds the read lock,
\* together with the text of that same sequence: the literal for the empty
\* list, otherwise the header with the count k and the k lines "i. color" in
\* list order; this holds for every get, whatever other calls run beside it.
\* ------------------------------------------------------------------------
GetsWithReturnValues ==
    {i \in AllCalls : /\ calls[i].op = "GetColors"
                      /\ \/ calls[i].released
                         \/ \E t \in Threads : cur[t] = i /\ pc[t] = "runlock"}

C15_RemoveKeepsOrder ==
    (HasLast /\ LastCall.op = "RemoveColor") =>
        LET old == LastCall.from
            c == LastCall.arg
        IN IF InList(c, old)
           THEN \E i \in 1..Len(old) :
                    /\ old[i] = c
                    /\ Len(colors) = Len(old) - 1
                    /\ \A j \in 1..(i - 1) : colors[j] = old[j]
                    /\ \A j \in (i + 1)..Len(old) : colors[j - 1] = old[j]
           ELSE colors = old

\* the first of three entries was removed: the two others moved up in order
C15_Witness ==
    /\ HasLast
    /\ LastCall.op = "RemoveColor"
    /\ Len(LastCall.from) = 3
    /\ LastCall.from[1] = LastCall.arg
    /\ colors = <<LastCall.from[2], LastCall.from[3]>>

\* ------------------------------------------------------------------------
\* C16: the registry holds the four tools add_color, get_colors, remove_color
\* and clear_colors, each under its own name, and no request changes it;
\* every tools/list is answered without error by a list of four tools whose
\* names are these four, each once.
\* ------------------------------------------------------------------------
FourTools == {"add_color", "get_colors", "remove_color", "clear_colors"}

ToolsListIsTheFour ==
    /\ DOMAIN tools = FourTools
    /\ \A n \in FourTools : tools[n].Name = n
    /\ (served /\ req.Method = "tools/list") =>
           /\ resp.Error.isNil
           /\ resp.Result.kind = "tools"
           /\ Len(resp.Result.tools) = 4
           /\ \A n \in FourTools :
                  Cardinality({i \in 1..Len(resp.Result.tools) :
                                   resp.Result.tools[i].Name = n}) = 1

\* C16: the registry and every tools/list answer hold exactly the four tools
C16_ToolsListFixed == [](ToolsListIsTheFour) /\ [][tools' = tools]_vars

\* tools/list is answered right after a request that changed the list
C16_Witness ==
    /\ served
    /\ req.Method = "tools/list"
    /\ before # <<>>
    /\ Len(resp.Result.tools) = 4
    /\ resp.Result.tools[1].Name = "clear_colors"
    /\ resp.Result.tools[4].Name = "add_color"

\* ------------------------------------------------------------------------
\* C17: every initialize, whatever its params and whatever the list holds,
\* is answered without error by the one fixed result (protocolVersion
\* "2024-11-05", serverInfo name "favorite-colors-mcp" and version "1.0.0",
\* capabilities declaring tools and nothing else), calls no store method and
\* leaves the list as it was.
\* ------------------------------------------------------------------------
C17_InitializeFixed ==
    (served /\ req.Method = "initialize") =>
        /\ resp.Error.isNil
        /\ resp.Result.kind = "initialize"
        /\ resp.Result.info = [protocolVersion |-> "2024-11-05",
                               serverInfo |-> [Name |-> "favorite-colors-mcp",
                                               Version |-> "1.0.0"],
                               capabilities |-> {"tools"}]
        /\ resp.Result.text = ""
        /\ resp.Result.tools = <<>>
        /\ "result" \in EncodedFields(resp)
        /\ "error" \notin EncodedFields(resp)
        /\ colors = before
        /\ storeCalls = <<>>

\* initialize sent with params that name a tool, to a server whose list is
\* not empty
C17_Witness ==
    /\ served
    /\ req.Method = "initialize"
    /\ req.Params.kind = "object"
    /\ before # <<>>
    /\ colors = before
    /\ resp.Result.info.protocolVersion = "2024-11-05"

\* ------------------------------------------------------------------------
\* C18: get_colors and clear_colors ignore arguments: whatever arguments is
\* (absent, an object with or without fields, not an object), the result and
\* the list afterwards are the ones fixed by the tool name and the list
\* before alone, so two such requests that differ only in arguments get the
\* same result and leave the same list; the response never holds an error.
\* ------------------------------------------------------------------------
C18_ArgumentsIgnored ==
    /\ CallsTool("get_colors") =>
           /\ IsTextResult(ListedText(before))
           /\ colors = before
    /\ CallsTool("clear_colors") =>
           /\ IsTextResult("Successfully cleared " \o ToString(Len(before))
                               \o " favorite colors!")
           /\ colors = <<>>

\* get_colors sent with arguments that are an object naming one color of a
\* two-entry list: both entries are listed
C18_Witness ==
    /\ CallsTool("get_colors")
    /\ SendsColor
    /\ Len(before) = 2
    /\ InList(ColorSent, before)
    /\ IsTextResult("Your favorite colors (2 total):\n1. " \o before[1] \o "\n2. "
                        \o before[2] \o "\n")

\* ------------------------------------------------------------------------
\* What a request and the list it is handled on determine: the kind and
\* content of the result or the code and message of the error, the tools
\* listed (as a set), and the list afterwards
\* ------------------------------------------------------------------------
Answer(kind, text, code, message, list) ==
    [kind |-> kind, text |-> text, code |-> code, message |-> message, list |-> list]

Without(cs, c) == SelectSeq(cs, LAMBDA x : x # c)

DeterminedCall(name, color, cs) ==
    IF name = "get_colors" THEN Answer("content", ListedText(cs), 0, "", cs)
    ELSE IF name = "clear_colors"
    THEN Answer("content", "Successfully cleared " \o ToString(Len(cs)) \o " favorite colors!",
                0, "", <<>>)
    ELSE IF color.kind # "string" \/ color.str = ""
    THEN Answer("nil", "", -32602, "Color parameter required", cs)
    ELSE IF name = "add_color"
    THEN IF InList(color.str, cs)
         THEN Answer("content", "Color '" \o color.str \o "' is already in your favorites",
                     0, "", cs)
         ELSE Answer("content", "Successfully added '" \o color.str
                                    \o "' to your favorite colors!", 0, "", cs \o <<color.str>>)
    ELSE IF InList(color.str, cs)
         THEN Answer("content", "Successfully removed '" \o color.str
                                    \o "' from your favorite colors!", 0, "",
                     Without(cs, color.str))
         ELSE Answer("content", "Color '" \o color.str \o "' was not found in your favorites",
                     0, "", cs)

Determined(r, cs) ==
    IF r.Method = "initialize" THEN Answer("initialize", "", 0, "", cs)
    ELSE IF r.Method = "tools/list" THEN Answer("tools", "", 0, "", cs)
    ELSE IF r.Method # "tools/call" THEN Answer("nil", "", -32601, "Method not found", cs)
    ELSE IF r.Params.kind # "object" THEN Answer("nil", "", -32602, "Invalid params", cs)
    ELSE IF r.Params.name.kind # "string"
    THEN Answer("nil", "", -32602, "Tool name required", cs)
    ELSE IF r.Params.name.str \notin FourTools
    THEN Answer("nil", "", -32601, "Tool not found", cs)
    ELSE DeterminedCall(r.Params.name.str,
                        IF r.Params.arguments.kind = "object" THEN r.Params.arguments.color
                                                              ELSE NilV,
                        cs)

Observed ==
    Answer(resp.Result.kind, resp.Result.text,
           IF resp.Error.isNil THEN 0 ELSE resp.Error.Code,
           IF resp.Error.isNil THEN "" ELSE resp.Error.Message,
           colors)

ToolsListed == {resp.Result.tools[i] : i \in 1..Len(resp.Result.tools)}

\* ------------------------------------------------------------------------
\* C19: the dispatcher keeps no session state: in every session, whether or
\* not initialize was sent and whatever was sent before, the response to a
\* request (its ID, its result or error, and for tools/list the set of tools
\* whatever their order) and the list afterwards are the ones determined by
\* the request and the list it was handled on.
\* ------------------------------------------------------------------------
C19_NoSessionState ==
    served =>
        /\ Observed = Determined(req, before)
        /\ resp.ID = req.ID
        /\ ToolsListed = (IF req.Method = "tools/list"
                          THEN {AddColorTool, GetColorsTool, RemoveColorTool, ClearColorsTool}
                          ELSE {})
        /\ resp.Result.info = (IF req.Method = "initialize" THEN InitializeResult.info
                                                             ELSE NoInfo)

\* a remove_color of an entry of a two-entry list is handled in a session
\* that never sent initialize
C19_Witness ==
    /\ ~session.initialized
    /\ CallsTool("remove_color")
    /\ SendsColor
    /\ Len(before) = 2
    /\ InList(ColorSent, before)
    /\ Len(colors) = 1
    /\ Observed = Determined(req, before)

\* ------------------------------------------------------------------------
\* C20: the list is empty when the server is created, and a request leaves
\* it different from what it was only when it is answered without error and
\* is an add_color of a color not in the list (which is appended), a
\* remove_color of a color in the list, or a clear_colors; after every other
\* request (initialize, tools/list, get_colors, add_color of a color in the
\* list, remove_color of a color not in it, any request answered with an
\* error) the list is as it was.
\* ------------------------------------------------------------------------
C20_ListChangesOnlyByTools ==
    /\ ~served => colors = <<>>
    /\ (served /\ colors # before) =>
           /\ resp.Error.isNil
           /\ \/ /\ CallsTool("add_color") /\ SendsColor
                 /\ ~InList(ColorSent, before)
                 /\ colors = before \o <<ColorSent>>
              \/ /\ CallsTool("remove_color") /\ SendsColor
                 /\ InList(ColorSent, before)
                 /\ Len(colors) = Len(before) - 1
              \/ /\ CallsTool("clear_colors")
                 /\ colors = <<>>

\* a remove_color of a color that is not in a non-empty list left it alone
C20_Witness ==
    /\ CallsTool("remove_color")
    /\ SendsColor
    /\ before # <<>>
    /\ ~InList(ColorSent, before)
    /\ resp.Error.isNil
    /\ colors = before

\* ------------------------------------------------------------------------
\* Transport claims
\* ------------------------------------------------------------------------
\* what an encoded response says: its result kind and text, its error
AnswerOf(json) ==
    [kind |-> IF "result" \in DOMAIN json THEN json["result"].kind ELSE "nil",
     text |-> IF "result" \in DOMAIN json THEN json["result"].text ELSE "",
     code |-> IF "error" \in DOMAIN json THEN json["error"].code ELSE 0,
     message |-> IF "error" \in DOMAIN json THEN json["error"].message ELSE ""]

\* a text that is one JSON request and nothing else
IsRequestText(text) == text.kind \in {"request", "long"}

\* the responses owed to the lines, in order, each computed on the list left
\* by the lines before it
RECURSIVE ExpectedAnswers(_, _)
ExpectedAnswers(lines, cs) ==
    IF lines = <<>> THEN <<>>
    ELSE IF ~IsRequestText(Head(lines)) THEN ExpectedAnswers(Tail(lines), cs)
    ELSE LET d == Determined(Head(lines).req, cs)
         IN <<[kind |-> d.kind, text |-> d.text, code |-> d.code, message |-> d.message]>>
                \o ExpectedAnswers(Tail(lines), d.list)

WrittenAnswers == [i \in 1..Len(stdout) |-> AnswerOf(stdout[i].json)]

\* ------------------------------------------------------------------------
\* C21: on the stdio transport, for any input stream, blank lines and lines
\* that are not valid JSON requests produce no response and every other line
\* produces exactly one newline-terminated response, written in the order of
\* the lines, each reflecting the effects of all earlier lines: once the
\* server is done with its input, standard output holds exactly the
\* responses owed to the request lines of the input.
\* ------------------------------------------------------------------------
C21_EveryRequestLineAnswered ==
    alive = "exited" /\ stdin # <<>> =>
        /\ WrittenAnswers = ExpectedAnswers(stdin, NewColorStorage)
        /\ \A i \in 1..Len(stdout) : stdout[i].kind = "json" /\ stdout[i].text = "\n"

\* the same without lines longer than the scanner's buffer
C21_ShortLinesAnswered ==
    alive = "exited" /\ (\A i \in 1..Len(stdin) : stdin[i].kind # "long") =>
        /\ WrittenAnswers = ExpectedAnswers(stdin, NewColorStorage)
        /\ \A i \in 1..Len(stdout) : stdout[i].kind = "json" /\ stdout[i].text = "\n"

\* a text that is not a JSON request: not JSON, or a request followed by
\* other characters
IsMalformed(text) == text.kind \in {"garbage", "trailing"}

IsParseError(json) ==
    /\ "error" \in DOMAIN json
    /\ json["error"].code = -32700

\* ------------------------------------------------------------------------
\* C22: a malformed request envelope is surfaced to the caller as a JSON-RPC
\* parse error (code -32700) on either transport and is never fatal: every
\* malformed line the stdio loop has taken was answered with a parse error,
\* the loop does not end on a malformed line, and a POST with a malformed
\* body is answered with a parse error.
\* ------------------------------------------------------------------------
C22_MalformedIsParseError ==
    /\ Cardinality({i \in 1..scanned : IsMalformed(stdin[i])})
           = Cardinality({i \in 1..Len(stdout) : IsParseError(stdout[i].json)})
    /\ alive = "exited" /\ scanned < Len(stdin) => ~IsMalformed(stdin[scanned + 1])
    /\ exchange.Method = "POST" /\ IsMalformed(exchange.Body) =>
           IsParseError(exchange.Written.json)

\* the part of C22 that is about the HTTP transport and bodies that are not JSON
C22_GarbageBodyIsParseError ==
    exchange.Method = "POST" /\ exchange.Body.kind = "garbage" =>
        IsParseError(exchange.Written.json)

\* ------------------------------------------------------------------------
\* C23: a POST to /mcp whose body is not a valid JSON request is answered
\* with status 200 and a response envelope holding error code -32700
\* ("Parse error"), no result and no id; the dispatcher is not invoked and
\* the color list is unchanged.
\* ------------------------------------------------------------------------
C23_InvalidBodyIsParseError ==
    [][\A b \in HTTPBodies :
           handleMCP(HTTPRequest("POST", b)) /\ ~IsRequestText(b) =>
               /\ exchange'.Status = 200
               /\ exchange'.Written.kind = "json"
               /\ DOMAIN exchange'.Written.json = {"jsonrpc", "error"}
               /\ IsParseError(exchange'.Written.json)
               /\ exchange'.Written.json["error"].message = "Parse error"
               /\ ~exchange'.dispatched
               /\ colors' = colors]_vars

\* the same for the bodies the decoder rejects
C23_RejectedBodyIsParseError ==
    [][\A b \in HTTPBodies :
           handleMCP(HTTPRequest("POST", b)) /\ ~Decode(b).ok =>
               /\ exchange'.Status = 200
               /\ exchange'.Written.kind = "json"
               /\ DOMAIN exchange'.Written.json = {"jsonrpc", "error"}
               /\ IsParseError(exchange'.Written.json)
               /\ exchange'.Written.json["error"].message = "Parse error"
               /\ ~exchange'.dispatched
               /\ colors' = colors]_vars

\* ------------------------------------------------------------------------
\* C24: on /mcp an OPTIONS request is answered with status 200 and an empty
\* body, and a request with any method other than POST or OPTIONS with
\* status 405; in both cases the body is not decoded, the dispatcher is not
\* invoked and the color list is unchanged.  Only POST reaches the
\* dispatcher.
\* ------------------------------------------------------------------------
C24_OnlyPostDispatches ==
    [][\A m \in HTTPMethods, b \in HTTPBodies :
           handleMCP(HTTPRequest(m, b)) =>
               /\ m = "OPTIONS" => exchange'.Status = 200 /\ exchange'.Written = NoBody
               /\ m \notin {"POST", "OPTIONS"} => exchange'.Status = 405
               /\ m # "POST" => /\ ~exchange'.decoded
                                /\ ~exchange'.dispatched
                                /\ colors' = colors
                                /\ UNCHANGED <<req, resp, served>>
               /\ exchange'.dispatched => m = "POST"]_vars

\* a DELETE carrying a clear_colors request was refused on a list holding a color
C24_Witness ==
    /\ exchange.Method = "DELETE"
    /\ exchange.Body = RequestText(CallRequest("clear_colors"))
    /\ exchange.Status = 405
    /\ colors # <<>>

\* ------------------------------------------------------------------------
\* C25: protocol-level misuse never crashes the server: for every decoded
\* request, whatever the JSON shape of params, params.name, params.arguments
\* and arguments.color, HandleRequest returns a response that is either a
\* result or an error with code -32601 or -32602, and the requests after it
\* are handled normally: each gets the response its content and the list
\* determine.
\* ------------------------------------------------------------------------
C25_MisuseIsAnswered ==
    served =>
        /\ resp.ID = req.ID
        /\ (resp.Result.kind # "nil") # (~resp.Error.isNil)
        /\ ~resp.Error.isNil => resp.Error.Code \in {-32601, -32602}
        /\ Observed = Determined(req, before)

\* an add_color call whose color is a JSON object was refused after a call
\* whose params were a number had left the list as it was, holding a color
C25_Witness ==
    /\ served
    /\ req.Method = "tools/call"
    /\ req.Params.kind = "object"
    /\ req.Params.name = StrV("add_color")
    /\ req.Params.arguments = ArgsObj(ObjV)
    /\ resp.Error.Code = -32602
    /\ before # <<>>
    /\ colors = before

\* ------------------------------------------------------------------------
\* Locking claims
\* ------------------------------------------------------------------------
\* where a goroutine is between taking the lock and releasing it
ExclusiveSections ==
    {"add_scan", "add_read", "add_write", "remove_scan", "remove_read", "remove_write",
     "clear_len", "clear_write", "unlock"}
SharedSections == {"get_make", "get_copy", "count_len", "runlock"}

\* ------------------------------------------------------------------------
\* C26: lock discipline of the Color Store: add, remove and clear run their
\* whole read-check-modify step holding the exclusive lock, get and count
\* run holding the shared lock, and a call holding the exclusive lock never
\* overlaps with another call holding the lock in either mode (several get
\* and count calls may hold the shared lock at once).
\* ------------------------------------------------------------------------
C26_LockDiscipline ==
    /\ \A t \in Threads :
           /\ pc[t] \in ExclusiveSections <=> mutexW = t
           /\ pc[t] \in SharedSections <=> t \in mutexR
           /\ pc[t] \in ExclusiveSections =>
                  calls[cur[t]].op \in {"AddColor", "RemoveColor", "ClearColors"}
           /\ pc[t] \in SharedSections => calls[cur[t]].op \in {"GetColors", "Count"}
    /\ mutexW # 0 => mutexR = {}
    /\ Cardinality({t \in Threads : pc[t] \in ExclusiveSections}) <= 1
    /\ \A t \in Threads :
           pc[t] \in ExclusiveSections =>
               \A u \in Threads \ {t} : pc[u] \notin ExclusiveSections \cup SharedSections

\* a get and a count hold the shared lock at once
C26_Witness ==
    \E t, u \in Threads :
        /\ {t, u} \subseteq mutexR
        /\ pc[t] = "get_copy"
        /\ pc[u] = "count_len"

\* the calls made are n >= 2 calls of method op with the same argument, all
\* returned
SameCalls(op) ==
    /\ Len(calls) >= 2
    /\ \A i \in 1..Len(calls) :
           /\ calls[i].op = op
           /\ calls[i].arg = calls[1].arg
           /\ calls[i].done

Successes == {i \in 1..Len(calls) : calls[i].ret.ok}

\* ------------------------------------------------------------------------
\* C27: when N add(c) calls run concurrently on a store not containing c,
\* exactly one of them reports added=true and the list afterwards contains
\* c once; when N remove(c) calls run concurrently on a store containing c,
\* exactly one reports removed=true and the count drops by exactly 1.
\* ------------------------------------------------------------------------
C27_OneWinner ==
    /\ SameCalls("AddColor") /\ ~InList(calls[1].arg, before) =>
           /\ Cardinality(Successes) = 1
           /\ Cardinality({i \in 1..Len(colors) : colors[i] = calls[1].arg}) = 1
           /\ Len(colors) = Len(before) + 1
    /\ SameCalls("RemoveColor") /\ InList(calls[1].arg, before) =>
           /\ Cardinality(Successes) = 1
           /\ Count(colors) = Count(before) - 1
           /\ ~InList(calls[1].arg, colors)

\* two remove calls of a color the store held ran at the same time: each was
\* invoked before the other had released the lock
C27_Witness ==
    /\ SameCalls("RemoveColor")
    /\ InList(calls[1].arg, before)
    /\ \A i \in 1..Len(calls) : calls[i].pre = {}

\* the goroutines that are inside a call
Pending == {t \in Threads : pc[t] # "idle"}
\* a goroutine waiting for a lock it cannot get
Blocked(t) ==
    \/ pc[t] = "lock" /\ ~CanLock
    \/ pc[t] = "rlock" /\ ~CanRLock

\* ------------------------------------------------------------------------
\* C28: every dispatch terminates: under fair scheduling each call that was
\* made eventually returns (whatever happens, the time comes again when
\* every call made so far has returned), once (a returned call stays
\* returned), with the store lock released on every path, including the
\* early returns for a duplicate add and a found remove; in no reachable
\* state are all pending calls blocked on the lock, and no call acquires
\* the lock while already holding it.
\* ------------------------------------------------------------------------
C28_EveryCallReturns ==
    /\ []<>(\A i \in 1..Len(calls) : calls[i].done)
    /\ [](\A i \in 1..Len(calls) : calls[i].done => calls[i].released)
    /\ [](\A t \in Threads : pc[t] \in {"idle", "return"} => mutexW # t /\ t \notin mutexR)
    /\ [](Pending # {} => \E t \in Pending : ~Blocked(t))
    /\ [][\A i \in 1..Len(calls) : calls[i].done => calls'[i].done]_vars
    /\ [][\A t \in Threads : /\ mutexW' = t /\ mutexW # t => t \notin mutexR
                             /\ t \in mutexR' /\ t \notin mutexR => mutexW # t]_vars

\* a duplicate add has returned early, and the lock is free
C28_Witness ==
    \E i \in 1..Len(calls) :
        /\ calls[i].op = "AddColor"
        /\ calls[i].done
        /\ ~calls[i].ret.ok
        /\ mutexW = 0
        /\ \E j \in 1..Len(calls) : j # i /\ calls[j].pre = {} /\ calls[i].pre = {}

\* a goroutine is at an I/O boundary while it is outside the store's methods:
\* before the call, where the transport reads and decodes the request, and
\* after the method returned, where the response is encoded and written
AtIO(t) == pc[t] \in {"idle", "return"}
HoldsLock(t) == mutexW = t \/ t \in mutexR

\* ------------------------------------------------------------------------
\* C29: no lock is held across an I/O boundary: where a transport reads a
\* request or encodes and writes a response, the goroutine doing so holds
\* the store lock in neither mode; a goroutine holds the lock only while it
\* inspects or modifies the list in memory, between taking the lock and the
\* deferred unlock of the same method.
\* ------------------------------------------------------------------------
C29_NoLockAtIO ==
    \A t \in Threads :
        /\ AtIO(t) => ~HoldsLock(t)
        /\ HoldsLock(t) =>
               /\ cur[t] # 0
               /\ ~calls[cur[t]].released
               /\ ~calls[cur[t]].done
        /\ pc[t] = "return" => calls[cur[t]].released

\* a get has returned and its response is being written while another
\* goroutine modifies the list under the exclusive lock
C29_Witness ==
    \E t, u \in Threads :
        /\ pc[t] = "return"
        /\ calls[cur[t]].op = "GetColors"
        /\ pc[u] = "add_write"
        /\ mutexW = u

\* ------------------------------------------------------------------------
\* C30: the sequence returned by get() is a snapshot that does not share
\* storage with the store: it holds the list as it was at the call; add,
\* remove (which shifts the remaining elements in place) and clear calls
\* made after get() returned never change its contents or length, and
\* changing it never changes the store.
\* ------------------------------------------------------------------------
C30_SnapshotIndependent ==
    [][/\ HeapCall([op |-> "GetColors", arg |-> ""]) =>
              /\ View(mem', mem'.got) = View(mem, mem.store)
              /\ mem'.got.arr # mem'.store.arr
       /\ (\E o \in StoreOps : o.op \notin {"GetColors", "Count"} /\ HeapCall(o)) =>
              View(mem', mem'.got) = View(mem, mem.got)
       /\ (\E i \in 1..NumColors, c \in Colors : CallerWrites(i, c)) =>
              /\ View(mem', mem'.store) = View(mem, mem.store)
              /\ colors' = colors]_vars

\* a remove has shifted the store's elements down after a get returned two
\* colors, and the returned sequence still holds both
C30_Witness ==
    /\ mem.got.len = 2
    /\ mem.store.len = 1
    /\ Len(mem.arrays[mem.store.arr]) >= 2
    /\ View(mem, mem.store)[1] = View(mem, mem.got)[2]
    /\ View(mem, mem.got)[1] # View(mem, mem.got)[2]

\* ------------------------------------------------------------------------
\* Registry claims
\* ------------------------------------------------------------------------
\* the tool names a tools/list on the registry returns
ListedNames == {tools[n].Name : n \in DOMAIN tools}

\* ------------------------------------------------------------------------
\* C31: the set of tool names returned by tools/list equals the set of tool
\* names tools/call dispatches: on a server built by NewServer a tools/list
\* response names the tools of the registry, a tools/call with a listed
\* name is never answered "Tool not found", and a tools/call with any other
\* name always is.
\* ------------------------------------------------------------------------
C31_ListedIsDispatched ==
    /\ (served /\ req.Method = "tools/list") =>
           {t.Name : t \in ToolsListed} = ListedNames
    /\ (IsToolsCall /\ req.Params.kind = "object" /\ req.Params.name.kind = "string") =>
           ((IsError(-32601) /\ resp.Error.Message = "Tool not found")
                <=> req.Params.name.str \notin ListedNames)

\* a call of clear_colors, a listed tool, was answered with a result
C31_Witness ==
    /\ CallsTool("clear_colors")
    /\ "clear_colors" \in ListedNames
    /\ resp.Error.isNil
    /\ resp.Result.kind = "content"

\* ------------------------------------------------------------------------
\* C32: the refactored server (internal/mcp.Server over
\* storage.ColorStorage) and the original single-file server (MCPServer
\* over the global favoriteColors) are equivalent: started from an empty
\* list and fed the same sequence of requests, they return the same
\* response to every request (code, message, result text, id) and hold the
\* same color sequence after every step.
\* ------------------------------------------------------------------------
C32_ServersEquivalent ==
    /\ legacy.favoriteColors = colors
    /\ legacy.resp.ID = resp.ID
    /\ legacy.resp.Error = resp.Error
    /\ legacy.resp.Result.kind = resp.Result.kind
    /\ legacy.resp.Result.text = resp.Result.text
    /\ legacy.resp.Result.info = resp.Result.info
    /\ legacy.resp.Result.kind = "tools" => legacy.resp.Result.tools = ToolsListed
    /\ EncodedFields(legacy.resp) = EncodedFields(resp)

\* both servers have answered a remove_color that took the first of two
\* colors out of their lists
C32_Witness ==
    /\ CallsTool("remove_color")
    /\ Len(before) = 2
    /\ Len(legacy.favoriteColors) = 1
    /\ legacy.favoriteColors[1] = before[2]
    /\ legacy.resp.Result.kind = "content"

\* ------------------------------------------------------------------------
\* Accounting claims
\* ------------------------------------------------------------------------
\* the sum of the counts reported by the clears among the first n calls
RECURSIVE ClearedUpTo(_)
ClearedUpTo(n) ==
    IF n = 0 THEN 0
    ELSE ClearedUpTo(n - 1) + (IF calls[n].op = "ClearColors" THEN calls[n].ret.count ELSE 0)

Reported(op) == Cardinality({i \in 1..Len(calls) : calls[i].op = op /\ calls[i].ret.ok})

\* ------------------------------------------------------------------------
\* C33: after any sequence or interleaving of calls, count() equals the
\* count the calls started on plus the number of adds that reported
\* added=true minus the number of removes that reported removed=true minus
\* the sum of the counts reported by clears; count() is never negative, a
\* single add raises it by at most 1 and a single remove lowers it by at
\* most 1.
\* ------------------------------------------------------------------------
C33_CountAccounting ==
    /\ [](Count(colors) = Count(before) + Reported("AddColor") - Reported("RemoveColor")
                              - ClearedUpTo(Len(calls)))
    /\ [](Count(colors) >= 0)
    /\ [][\A t \in Threads :
              /\ AddScan(t) \/ AddRead(t) \/ AddWrite(t) =>
                     Count(colors') \in {Count(colors), Count(colors) + 1}
              /\ RemoveScan(t) \/ RemoveRead(t) \/ RemoveWrite(t) =>
                     Count(colors') \in {Count(colors) - 1, Count(colors)}]_vars

\* on a store that started with one color, an add made it two and a clear
\* invoked while the add was running reported both
C33_Witness ==
    /\ Len(calls) = 2
    /\ calls[1].op = "AddColor" /\ calls[1].ret.ok
    /\ calls[2].op = "ClearColors" /\ calls[2].ret.count = 2
    /\ calls[2].pre = {}
    /\ before # <<>>
    /\ colors = <<>>

\* ------------------------------------------------------------------------
\* C34: round trip: on a store not containing c, add(c) followed by
\* remove(c) with no call in between restores exactly the previous sequence
\* (same elements, same order) and both calls report success; on a store
\* whose last element is c, remove(c) followed by add(c) also restores the
\* previous sequence.
\* ------------------------------------------------------------------------
C34_RoundTrip ==
    /\ (/\ HasTwo
        /\ FirstOfTwo.op = "AddColor"
        /\ LastCall.op = "RemoveColor"
        /\ FirstOfTwo.arg = LastCall.arg
        /\ ~InList(FirstOfTwo.arg, FirstOfTwo.from)) =>
           /\ colors = FirstOfTwo.from
           /\ FirstOfTwo.ret.ok
           /\ LastCall.ret.ok
    /\ (/\ HasTwo
        /\ FirstOfTwo.op = "RemoveColor"
        /\ LastCall.op = "AddColor"
        /\ FirstOfTwo.arg = LastCall.arg
        /\ FirstOfTwo.from # <<>>
        /\ FirstOfTwo.from[Len(FirstOfTwo.from)] = FirstOfTwo.arg) =>
           /\ colors = FirstOfTwo.from
           /\ FirstOfTwo.ret.ok
           /\ LastCall.ret.ok

\* a color was added to a list of two and removed again
C34_Witness ==
    /\ HasTwo
    /\ FirstOfTwo.op = "AddColor"
    /\ LastCall.op = "RemoveColor"
    /\ FirstOfTwo.arg = LastCall.arg
    /\ Len(FirstOfTwo.from) = 2
    /\ ~InList(FirstOfTwo.arg, FirstOfTwo.from)
    /\ colors = FirstOfTwo.from

\* ------------------------------------------------------------------------
\* C35: when the color list is changed only through dispatched requests, it
\* never contains the empty string: every element of the list is a
\* non-empty string that was the arguments.color of some earlier add_color
\* request answered with a result (the list starts empty, and an element
\* that was not in the list before a request is the color of that request,
\* an add_color answered with a result).
\* ------------------------------------------------------------------------
C35_NoEmptyColor ==
    /\ [](\A i \in 1..Len(colors) : colors[i] # "")
    /\ [](~served => colors = <<>>)
    /\ [][\A i \in 1..Len(colors') :
              \/ InList(colors'[i], colors)
              \/ /\ req'.Method = "tools/call"
                 /\ req'.Params.kind = "object"
                 /\ req'.Params.name = StrV("add_color")
                 /\ req'.Params.arguments.kind = "object"
                 /\ req'.Params.arguments.color = StrV(colors'[i])
                 /\ colors'[i] # ""
                 /\ resp'.Error.isNil
                 /\ resp'.Result.kind = "content"]_vars

\* an add_color of the empty string was refused on a list holding a color
C35_Witness ==
    /\ CallsTool("add_color")
    /\ req.Params.arguments = ArgsObj(StrV(""))
    /\ IsError(-32602)
    /\ before # <<>>
    /\ colors = before

\* ------------------------------------------------------------------------
\* C36: RegisterTool is an idempotent upsert keyed by tool name: registering
\* the same tool twice leaves the registry as after registering it once,
\* registering two tools with the same name leaves only the later one, and
\* after any sequence of registrations the registry holds exactly one entry
\* per distinct name registered.
\* ------------------------------------------------------------------------
RegisteredNames == {registered[i].Name : i \in 1..Len(registered)}
LastRegistered(name) ==
    registered[CHOOSE i \in 1..Len(registered) :
                   /\ registered[i].Name = name
                   /\ \A j \in (i + 1)..Len(registered) : registered[j].Name # name]

C36_RegisterToolUpsert ==
    /\ [](DOMAIN tools = RegisteredNames)
    /\ [](Cardinality(DOMAIN tools) = Cardinality(RegisteredNames))
    /\ [](\A name \in RegisteredNames : tools[name] = LastRegistered(name))
    /\ [][\A tool \in RegistryTools :
              (/\ Server_RegisterTool(tool)
               /\ registered[Len(registered)] = tool) => tools' = tools]_vars

\* a second tool was registered under a name that was taken, and the same
\* tool was then registered once more
C36_Witness ==
    /\ Len(registered) >= Len(registerToolsCalls) + 2
    /\ LET n == Len(registered)
       IN /\ registered[n] = registered[n - 1]
          /\ registered[n] # AddColorTool
          /\ registered[n].Name = "add_color"
          /\ tools["add_color"] = registered[n]

====
